---- MODULE Spec2Model ----
(***************************************************************************)
(* A model of the make-your-own-tea runtime: the Html AST, the tree        *)
(* builder, attribute application, the reconciler (patch), the hydrator    *)
(* and the dispatch loop of runProgram / runProgramWithHydration.          *)
(*                                                                         *)
(* The DOM is modelled by value: a live node is a record carrying the      *)
(* identity (id) of the object, an element holds its child nodes, its      *)
(* registered listeners, its attributes, its class list and the           *)
(* properties assigned to it.  Every operation that the source performs on *)
(* the mutable DOM or on the mutable _eventListeners field of an AST node  *)
(* takes the current values and returns the new ones, together with `dom`, *)
(* the allocation counter and the trace of the DOM calls made.             *)
(***************************************************************************)
EXTENDS Integers, Sequences, FiniteSets, TLC

VARIABLES
    \* ---- the dispatch loop (Spec)
    program,        \* the Program given to the entry point
    started,        \* "no" | "runProgram" | "runProgramWithHydration"
    loop,           \* what the closure `listener` shares with its entry
                    \* point: currentModel, previousView, currentTree, the
                    \* mount point root, the pending timers, and the
                    \* allocation counter and call trace of the last step
    running,        \* the RunningProgram returned
    calls,          \* number of sends and native events so far
    errors,         \* number of console.error calls
    lastCall,       \* what entered the program in the last step
    \* ---- the reconciler exercised on its own (SpecPatch)
    pStage,         \* "start" | "built" | "patched" | "patchedSame" |
                    \* "rendered" | "hydrated" | "patchedHydrated" |
                    \* "patchedIndexTs"; "element" | "set" | "setAgain"
    pPrevious,      \* the previous AST (after build it carries its listeners)
    pNext,          \* the next AST
    pParent,        \* an element holding the live tree as its only child
    pBuilt,         \* the live tree as buildTree returned it
    pStatus,        \* the PatchStatus returned by patch
    pDom,           \* allocation counter and DOM call trace of the last step
    \* ---- setAttribute exercised on its own (SpecAttr)
    pAttribute      \* the attribute passed to setAttribute

loopVars == <<program, started, loop, running, calls, errors, lastCall>>

patchVars ==
    <<pStage, pPrevious, pNext, pParent, pBuilt, pStatus, pDom, pAttribute>>

vars == <<loopVars, patchVars>>

(***************************************************************************)
(* Bounds of the model.                                                    *)
(***************************************************************************)
MaxChildren == 3

\* The number of times the program is entered by send or by a native
\* event; a timer is set only by such an entry.
MaxCalls == 3

\* The longest class list an element starts with.
MaxClasses == 3

\* The longest list of names the name collector is driven to when update is
\* applied on its own.
MaxNames == 2

\* The longest attribute value renderAttributeAsString is applied to.
MaxValue == 3

(***************************************************************************)
(* Small helpers on sequences.                                             *)
(***************************************************************************)
Range(s) == {s[i] : i \in 1..Len(s)}

\* (mutant) no array includes anything
includesNever(s, x) == FALSE

includes(s, x) == \E i \in 1..Len(s) : s[i] = x

RemoveAt(s, i) == SubSeq(s, 1, i - 1) \o SubSeq(s, i + 1, Len(s))

ReplaceAt(s, i, x) == [s EXCEPT ![i] = x]

\* The sequences over S of length at most n.
SeqsUpTo(S, n) == UNION {[1..k -> S] : k \in 0..n}

(***************************************************************************)
(* The AST.                                                                *)
(***************************************************************************)
Tags == {"div", "h1", "button", "input"}

on(eventName, listener) == [name |-> eventName, messageConverter |-> listener]

\* attribute(key, value) with a string value
StringAttribute(key, value) ==
    [kind |-> "StringAttribute", key |-> key, value |-> value]

\* attribute(key, value) with a boolean value
BooleanAttribute(key, value) ==
    [kind |-> "BooleanAttribute", key |-> key, value |-> value]

node(tag, children, events, attributes) ==
    [kind |-> "Node", tag |-> tag, children |-> children, events |-> events,
     _eventListeners |-> <<>>, attributes |-> attributes]

div(children, events, attributes) == node("div", children, events, attributes)

h1(children, events, attributes) == node("h1", children, events, attributes)

button(children, events, attributes) ==
    node("button", children, events, attributes)

input(children, events, attributes) ==
    node("input", children, events, attributes)

text(content) == [kind |-> "Text", content |-> content]

(***************************************************************************)
(* The DOM primitives the runtime uses.                                    *)
(***************************************************************************)
NoDom == [nid |-> 1, log |-> <<>>, threw |-> FALSE]

Logged(dom, entry) == [dom EXCEPT !.log = Append(@, entry)]

Throw(dom) == [dom EXCEPT !.threw = TRUE]

\* document.createElement(tag)
createElement(tag, id) ==
    [id |-> id, kind |-> "Element", tag |-> tag, childNodes |-> <<>>,
     listeners |-> <<>>, attrs |-> {}, classList |-> <<>>, props |-> {}]

\* document.createTextNode(content)
createTextNode(content, id) ==
    [id |-> id, kind |-> "Text", data |-> content, childNodes |-> <<>>,
     listeners |-> <<>>]

\* The value of root.children[0] when the mount point has no element child.
Undefined == [id |-> 0, kind |-> "undefined"]

\* element.tagName: the upper-cased tag of an HTML element
tagName(el) ==
    CASE el.tag = "div" -> "DIV"
      [] el.tag = "h1" -> "H1"
      [] el.tag = "button" -> "BUTTON"
      [] el.tag = "input" -> "INPUT"
      [] el.tag = "option" -> "OPTION"
      [] el.tag = "textarea" -> "TEXTAREA"
      [] el.tag = "select" -> "SELECT"
      [] el.tag = "optgroup" -> "OPTGROUP"
      [] OTHER -> el.tag

hasAttribute(el, key) == \E a \in el.attrs : a.key = key

\* element.getAttribute(key); "null" is written for the absent attribute
getAttribute(el, key) ==
    IF hasAttribute(el, key)
    THEN (CHOOSE a \in el.attrs : a.key = key).value
    ELSE "null"

\* element.setAttribute(key, value) for a key other than class
domSetAttribute(el, key, value) ==
    [el EXCEPT !.attrs = {a \in @ : a.key # key}
                         \cup {[key |-> key, value |-> value]}]

\* (mutant) the attribute is not removed
domRemoveAttributeKept(el, key) == el

\* element.removeAttribute(key); removing class empties the class list
domRemoveAttribute(el, key) ==
    IF key = "class"
    THEN [el EXCEPT !.classList = <<>>]
    ELSE [el EXCEPT !.attrs = {a \in @ : a.key # key}]

\* (mutant) the attribute is written as well as the property
domSetPropertyAndAttribute(el, attr) ==
    [el EXCEPT !.props = {p \in @ : p.key # attr.key}
                         \cup {[key |-> attr.key, kind |-> attr.kind,
                                value |-> attr.value]},
               !.attrs = {a \in @ : a.key # attr.key}
                         \cup {[key |-> attr.key, value |-> attr.key]}]

\* element[key] = value
domSetProperty(el, attr) ==
    [el EXCEPT !.props = {p \in @ : p.key # attr.key}
                         \cup {[key |-> attr.key, kind |-> attr.kind,
                                value |-> attr.value]}]

\* element.addEventListener(name, listener, {once: true})
addEventListener(el, event, listener) ==
    [el EXCEPT !.listeners =
        Append(@, [name |-> event.name, listener |-> listener,
                   event |-> event])]

\* element.removeEventListener(name, listener)
removeEventListener(el, name, listener) ==
    [el EXCEPT !.listeners =
        SelectSeq(@, LAMBDA l : ~(l.name = name /\ l.listener = listener))]

(***************************************************************************)
(* String.prototype.split(" ")                                             *)
(***************************************************************************)
RECURSIVE splitFrom(_, _, _, _)
splitFrom(s, i, current, acc) ==
    IF i > Len(s) THEN Append(acc, current)
    ELSE IF SubSeq(s, i, i) = " "
         THEN splitFrom(s, i + 1, "", Append(acc, current))
         ELSE splitFrom(s, i + 1, current \o SubSeq(s, i, i), acc)

split(s) == splitFrom(s, 1, "", <<>>)

(***************************************************************************)
(* isProperty and setAttribute                                             *)
(***************************************************************************)
isProperty(tag, key) ==
    CASE tag = "INPUT" ->
            key \in {"checked", "indeterminate", "value", "readonly",
                     "disabled"}
      [] tag = "OPTION" -> key \in {"selected", "disabled"}
      [] tag = "TEXTAREA" -> key \in {"value", "readonly", "disabled"}
      [] tag = "SELECT" -> key \in {"value", "disabled"}
      [] tag \in {"BUTTON", "OPTGROUP"} -> key = "disabled"
      [] OTHER -> FALSE

\* classList.add(...classes): every token not yet present is appended
RECURSIVE classListAdd(_, _, _)
classListAdd(list, classes, i) ==
    IF i > Len(classes) THEN list
    ELSE classListAdd(IF includes(list, classes[i]) THEN list
                      ELSE Append(list, classes[i]),
                      classes, i + 1)

\* for (const class_ of classList) if (!classes.includes(class_)) remove:
\* the iterator of the live list advances by index while entries are removed
RECURSIVE classListPrune(_, _, _)
classListPrune(list, classes, i) ==
    IF i > Len(list) THEN list
    ELSE IF ~includes(classes, list[i])
         THEN classListPrune(RemoveAt(list, i), classes, i + 1)
         ELSE classListPrune(list, classes, i + 1)

\* A DOM call on `tree` that returned: the tree afterwards and the trace.
Did(tree, dom, op, key) ==
    [tree |-> tree,
     dom |-> Logged(dom, [op |-> op, node |-> tree.id, key |-> key])]

\* A DOM call on `tree` that raised an exception.
Raised(tree, dom) == [tree |-> tree, dom |-> Throw(dom)]

\* The class rule of setAttribute; classList.add("") raises a SyntaxError.
setClass(currentTree, classes, dom) ==
    IF includes(classes, "") THEN Raised(currentTree, dom)
    ELSE Did([currentTree EXCEPT
                !.classList = classListPrune(classListAdd(@, classes, 1),
                                             classes, 1)],
             dom, "classList", "class")

\* setAttribute(currentTree, attribute): the element afterwards and the
\* trace.  A Text node has none of the members used: a TypeError is raised.
setAttribute(currentTree, attr, dom) ==
    IF currentTree.kind # "Element" THEN Raised(currentTree, dom)
    ELSE IF attr.key = "class"
    THEN setClass(currentTree, split(attr.value), dom)
    ELSE IF isProperty(tagName(currentTree), attr.key)
    THEN Did(domSetProperty(currentTree, attr), dom, "setProperty", attr.key)
    ELSE IF attr.kind = "BooleanAttribute"
    THEN IF attr.value
         THEN Did(domSetAttribute(currentTree, attr.key, attr.key), dom,
                  "setAttribute", attr.key)
         ELSE IF getAttribute(currentTree, attr.key) = attr.key
         THEN Did(domRemoveAttribute(currentTree, attr.key), dom,
                  "removeAttribute", attr.key)
         ELSE [tree |-> currentTree, dom |-> dom]
    ELSE Did(domSetAttribute(currentTree, attr.key, attr.value), dom,
             "setAttribute", attr.key)

\* for (const attribute of attributes) setAttribute(node, attribute)
RECURSIVE setAttributes(_, _, _, _)
setAttributes(currentTree, attributes, i, dom) ==
    IF i > Len(attributes) \/ dom.threw
    THEN [tree |-> currentTree, dom |-> dom]
    ELSE LET rest(r) == setAttributes(r.tree, attributes, i + 1, r.dom)
         IN rest(setAttribute(currentTree, attributes[i], dom))

(***************************************************************************)
(* buildTree                                                               *)
(***************************************************************************)
\* (mutant) the listeners are registered on the element but not recorded
\* on the AST node
attachListenersUnrecorded(currentTree, html, dom) ==
    LET n == Len(html.events)
    IN [tree |-> [currentTree EXCEPT !.listeners = @ \o
                    [i \in 1..n |-> [name |-> html.events[i].name,
                                     listener |-> dom.nid + i - 1,
                                     event |-> html.events[i]]]],
        view |-> html,
        dom |-> [dom EXCEPT !.nid = @ + n,
                            !.log = @ \o
                    [i \in 1..n |-> [op |-> "addEventListener",
                                     node |-> currentTree.id,
                                     key |-> html.events[i].name]]]]

\* for (const event of html.events) { addEventListener(.., {once: true});
\*                                    html._eventListeners.push(..) }
\* A listener is a fresh closure: it is named by a fresh id.  The same loop
\* is written out in buildTree, in hydrate and in patchEvents.
attachListeners(currentTree, html, dom) ==
    LET n == Len(html.events)
    IN [tree |-> [currentTree EXCEPT !.listeners = @ \o
                    [i \in 1..n |-> [name |-> html.events[i].name,
                                     listener |-> dom.nid + i - 1,
                                     event |-> html.events[i]]]],
        view |-> [html EXCEPT !._eventListeners = @ \o
                    [i \in 1..n |-> [event |-> html.events[i],
                                     listener |-> dom.nid + i - 1]]],
        dom |-> [dom EXCEPT !.nid = @ + n,
                            !.log = @ \o
                    [i \in 1..n |-> [op |-> "addEventListener",
                                     node |-> currentTree.id,
                                     key |-> html.events[i].name]]]]

\* The DOM after a node was created with the fresh identity dom.nid.
Created(dom, op, key) ==
    [dom EXCEPT !.nid = @ + 1,
                !.log = Append(@, [op |-> op, node |-> dom.nid, key |-> key])]

RECURSIVE buildTree(_, _)
RECURSIVE buildChildren(_, _, _, _)

\* buildTree(listener, html): the node built, html with the listeners
\* recorded on it and on its descendants, and the DOM trace.
buildTree(html, dom) ==
    IF html.kind = "Text"
    THEN [tree |-> createTextNode(html.content, dom.nid),
          view |-> html,
          dom |-> Created(dom, "createTextNode", html.content)]
    ELSE LET built(c, a) == [tree |-> a.tree, view |-> c.view, dom |-> a.dom]
             withAttributes(c) ==
                 built(c, setAttributes(c.tree, html.attributes, 1, c.dom))
             withChildren(e) ==
                 withAttributes(buildChildren(e.tree, e.view, 1, e.dom))
         IN withChildren(attachListeners(createElement(html.tag, dom.nid),
                                         html,
                                         Created(dom, "createElement",
                                                 html.tag)))

\* for (const child of html.children) node.appendChild(buildTree(.., child))
buildChildren(el, html, i, dom) ==
    IF i > Len(html.children) \/ dom.threw
    THEN [tree |-> el, view |-> html, dom |-> dom]
    ELSE LET appended(b) ==
                 IF b.dom.threw
                 THEN [tree |-> el,
                       view |-> [html EXCEPT !.children[i] = b.view],
                       dom |-> b.dom]
                 ELSE buildChildren(
                        [el EXCEPT !.childNodes = Append(@, b.tree)],
                        [html EXCEPT !.children[i] = b.view],
                        i + 1,
                        Logged(b.dom, [op |-> "appendChild", node |-> el.id,
                                       key |-> b.tree.id]))
         IN appended(buildTree(html.children[i], dom))

(***************************************************************************)
(* patchEvents, patchAttributes, patch                                     *)
(***************************************************************************)
\* The AST without the listeners recorded on it: what view() returned.
RECURSIVE Bare(_)
Bare(html) ==
    IF html.kind = "Text" THEN html
    ELSE [html EXCEPT !._eventListeners = <<>>,
                      !.children = [i \in 1..Len(@) |-> Bare(@[i])]]

\* (mutant) no listener of previousView is removed
removeListenersNone(currentTree, registered, i, dom) ==
    [tree |-> currentTree, dom |-> dom]

\* for (const event of previousView._eventListeners)
\*     currentTree.removeEventListener(event.event.name, event.listener)
RECURSIVE removeListeners(_, _, _, _)
removeListeners(currentTree, registered, i, dom) ==
    IF i > Len(registered) THEN [tree |-> currentTree, dom |-> dom]
    ELSE removeListeners(
            removeEventListener(currentTree, registered[i].event.name,
                                registered[i].listener),
            registered, i + 1,
            Logged(dom, [op |-> "removeEventListener",
                         node |-> currentTree.id,
                         key |-> registered[i].event.name]))

\* (mutant) the listeners of previousView are removed and none is added
patchEventsOnlyRemoves(previousView, nextView, currentTree, dom) ==
    LET kept(removed) ==
            [tree |-> removed.tree, view |-> nextView, dom |-> removed.dom]
    IN kept(IF previousView.kind # "Text"
            THEN removeListeners(currentTree, previousView._eventListeners,
                                 1, dom)
            ELSE [tree |-> currentTree, dom |-> dom])

patchEvents(previousView, nextView, currentTree, dom) ==
    LET attach(removed) ==
            IF nextView.kind # "Text"
            THEN attachListeners(removed.tree, nextView, removed.dom)
            ELSE [tree |-> removed.tree, view |-> nextView,
                  dom |-> removed.dom]
    IN attach(IF previousView.kind # "Text"
              THEN removeListeners(currentTree, previousView._eventListeners,
                                   1, dom)
              ELSE [tree |-> currentTree, dom |-> dom])

attributeKeys(attributes) == [i \in 1..Len(attributes) |-> attributes[i].key]

\* (mutant) every attribute of nextView is written again
valueDiffersAlways(nextAttribute, previousAttribute) == TRUE

\* nextAttribute.value !== previousAttribute.value
valueDiffers(nextAttribute, previousAttribute) ==
    \/ nextAttribute.kind # previousAttribute.kind
    \/ nextAttribute.value # previousAttribute.value

\* The first attribute of previousView with this key: where the inner loop
\* of patchAttributes breaks.
firstWithKey(attributes, key) ==
    attributes[CHOOSE j \in 1..Len(attributes) :
                  /\ attributes[j].key = key
                  /\ \A k \in 1..(j - 1) : attributes[k].key # key]

\* The first loop of patchAttributes, over nextView.attributes.
RECURSIVE patchNextAttributes(_, _, _, _, _)
patchNextAttributes(previousView, nextView, currentTree, i, dom) ==
    IF i > Len(nextView.attributes) \/ dom.threw
    THEN [tree |-> currentTree, dom |-> dom]
    ELSE LET rest(r) == patchNextAttributes(previousView, nextView, r.tree,
                                            i + 1, r.dom)
             nextAttribute == nextView.attributes[i]
         IN rest(IF includes(attributeKeys(previousView.attributes),
                             nextAttribute.key)
                    /\ ~valueDiffers(nextAttribute,
                                     firstWithKey(previousView.attributes,
                                                  nextAttribute.key))
                 THEN [tree |-> currentTree, dom |-> dom]
                 ELSE setAttribute(currentTree, nextAttribute, dom))

\* The second loop of patchAttributes, over previousView.attributes;
\* removeAttribute is no member of a Text node.
RECURSIVE removePreviousAttributes(_, _, _, _, _)
removePreviousAttributes(previousView, nextView, currentTree, i, dom) ==
    IF i > Len(previousView.attributes) \/ dom.threw
    THEN [tree |-> currentTree, dom |-> dom]
    ELSE LET rest(r) == removePreviousAttributes(previousView, nextView,
                                                 r.tree, i + 1, r.dom)
             previousAttribute == previousView.attributes[i]
             hasAttributeBeenSeen ==
                 includes(attributeKeys(nextView.attributes),
                          previousAttribute.key)
         IN rest(IF hasAttributeBeenSeen
                 THEN [tree |-> currentTree, dom |-> dom]
                 ELSE IF currentTree.kind # "Element"
                 THEN Raised(currentTree, dom)
                 ELSE Did(domRemoveAttribute(currentTree,
                                             previousAttribute.key),
                          dom, "removeAttribute", previousAttribute.key))

patchAttributes(previousView, nextView, currentTree, dom) ==
    IF nextView.kind = "Text" THEN [tree |-> currentTree, dom |-> dom]
    ELSE IF previousView.kind # "Text"
    THEN LET remove(applied) ==
                 removePreviousAttributes(previousView, nextView,
                                          applied.tree, 1, applied.dom)
         IN remove(patchNextAttributes(previousView, nextView, currentTree,
                                       1, dom))
    ELSE setAttributes(currentTree, nextView.attributes, 1, dom)

NoStatus == [replaced |-> 0, patched |-> 0, removed |-> 0, added |-> 0]

\* (mutant) the bound of the removal loop without the - 1
isExcessOffByOne(i, nextView) == i > Len(nextView.children)

\* i > nextView.children.length - 1, the condition of the removal loop
isExcess(i, nextView) == i > Len(nextView.children) - 1

\* The loop that removes the excess children, from the last index down; i
\* is the index of the source, i + 1 the position in childNodes.
RECURSIVE removeExcess(_, _, _, _, _)
removeExcess(nextView, currentTree, i, status, dom) ==
    IF isExcess(i, nextView)
    THEN removeExcess(nextView,
                      [currentTree EXCEPT !.childNodes = RemoveAt(@, i + 1)],
                      i - 1,
                      [status EXCEPT !.removed = @ + 1],
                      Logged(dom, [op |-> "removeChild",
                                   node |-> currentTree.id,
                                   key |-> currentTree.childNodes[i + 1].id]))
    ELSE [tree |-> currentTree, status |-> status, dom |-> dom]

\* (mutant) a Text node is replaced whatever its content
sameTextNever(previousView, nextView) == FALSE

\* nextView.kind === "Text" && previousView.content === nextView.content
sameText(previousView, nextView) ==
    nextView.kind = "Text" /\ previousView.content = nextView.content

\* (mutant) the status of a child's patch is dropped
addStatusNone(status, childPatched) == status

\* status.x += childPatched.x for the four counters
addStatus(status, childPatched) ==
    [added |-> status.added + childPatched.added,
     patched |-> status.patched + childPatched.patched,
     removed |-> status.removed + childPatched.removed,
     replaced |-> status.replaced + childPatched.replaced]

\* (mutant) an appended child is not counted
countAddedNever(status) == status

\* status.added++
countAdded(status) == [status EXCEPT !.added = @ + 1]

RECURSIVE patch(_, _, _, _)
RECURSIVE patchChildren(_, _, _, _, _, _)

\* (mutant) the node is built but never spliced in
replaceWithBuiltNotSpliced(nextView, currentTree, dom) ==
    LET kept(b) == [tree |-> currentTree, view |-> b.view,
                    status |-> [NoStatus EXCEPT !.replaced = 1],
                    dom |-> b.dom]
    IN kept(buildTree(nextView, dom))

\* currentTree.replaceWith(buildTree(listener, nextView));
\* return { ...status, replaced: 1 }
\* `tree` is the node standing where currentTree stood under its parent.
replaceWithBuilt(nextView, currentTree, dom) ==
    LET spliced(b) ==
            [tree |-> IF b.dom.threw THEN currentTree ELSE b.tree,
             view |-> b.view,
             status |-> [NoStatus EXCEPT !.replaced = 1],
             dom |-> IF b.dom.threw THEN b.dom
                     ELSE Logged(b.dom, [op |-> "replaceWith",
                                         node |-> currentTree.id,
                                         key |-> b.tree.id])]
    IN spliced(buildTree(nextView, dom))

\* patch(listener, previousView, nextView, currentTree): the node standing at
\* currentTree's position afterwards, nextView with the listeners recorded
\* on it, the PatchStatus returned and the DOM trace.
patch(previousView, nextView, currentTree, dom) ==
    LET returned(c, r) ==
            [tree |-> r.tree, view |-> c.view,
             status |-> IF r.dom.threw THEN r.status
                        ELSE [r.status EXCEPT !.patched = @ + 1],
             dom |-> r.dom]
        pruned(c) ==
            returned(c, IF c.dom.threw
                        THEN [tree |-> c.tree, status |-> c.status,
                              dom |-> c.dom]
                        ELSE removeExcess(c.view, c.tree,
                                          Len(c.tree.childNodes) - 1,
                                          c.status, c.dom))
        withChildren(e, a) ==
            pruned(IF a.dom.threw
                   THEN [tree |-> a.tree, view |-> e.view,
                         status |-> NoStatus, dom |-> a.dom]
                   ELSE patchChildren(previousView, e.view, a.tree, 1,
                                      NoStatus, a.dom))
        withAttributes(e) ==
            withChildren(e, patchAttributes(previousView, nextView, e.tree,
                                            e.dom))
        body(called) ==
            IF currentTree.kind = "undefined"
            THEN \* every use of an undefined currentTree raises a
                 \* TypeError; only two Text nodes of equal content return
                 \* before using it
                 [tree |-> currentTree, view |-> nextView,
                  status |-> NoStatus,
                  dom |-> IF /\ previousView.kind = "Text"
                             /\ nextView.kind = "Text"
                             /\ previousView.content = nextView.content
                          THEN called ELSE Throw(called)]
            ELSE IF \/ previousView.kind # nextView.kind
                    \/ previousView.kind = "Text"
                         /\ ~sameText(previousView, nextView)
                    \/ previousView.kind = "Node"
                         /\ previousView.tag # nextView.tag
            THEN replaceWithBuilt(nextView, currentTree, called)
            ELSE IF previousView.kind = "Text"
            THEN [tree |-> currentTree, view |-> nextView,
                  status |-> NoStatus, dom |-> called]
            ELSE withAttributes(patchEvents(previousView, nextView,
                                            currentTree, called))
    IN body(Logged(dom, [op |-> "patch", node |-> currentTree.id,
                         previous |-> Bare(previousView),
                         next |-> Bare(nextView)]))

\* for (let i = 0; i < nextView.children.length; i++) { .. }; i is the
\* index of the source plus one.
patchChildren(previousView, nextView, currentTree, i, status, dom) ==
    IF i > Len(nextView.children) \/ dom.threw
    THEN [tree |-> currentTree, view |-> nextView, status |-> status,
          dom |-> dom]
    ELSE IF i > Len(currentTree.childNodes)
    THEN \* typeof currentChild === "undefined"; appendChild on a Text node
         \* raises a HierarchyRequestError
         LET appended(b) ==
                 IF b.dom.threw \/ currentTree.kind # "Element"
                 THEN [tree |-> currentTree,
                       view |-> [nextView EXCEPT !.children[i] = b.view],
                       status |-> status, dom |-> Throw(b.dom)]
                 ELSE patchChildren(
                        previousView,
                        [nextView EXCEPT !.children[i] = b.view],
                        [currentTree EXCEPT
                            !.childNodes = Append(@, b.tree)],
                        i + 1,
                        countAdded(status),
                        Logged(b.dom, [op |-> "appendChild",
                                       node |-> currentTree.id,
                                       key |-> b.tree.id]))
         IN appended(buildTree(nextView.children[i], dom))
    ELSE IF i > Len(previousView.children)
    THEN \* previousChild is undefined: previousView.kind raises a TypeError
         [tree |-> currentTree, view |-> nextView, status |-> status,
          dom |-> Throw(dom)]
    ELSE LET recursed(childPatched) ==
                 patchChildren(
                    previousView,
                    [nextView EXCEPT !.children[i] = childPatched.view],
                    [currentTree EXCEPT !.childNodes[i] = childPatched.tree],
                    i + 1,
                    IF childPatched.dom.threw THEN status
                    ELSE addStatus(status, childPatched.status),
                    childPatched.dom)
         IN recursed(patch(previousView.children[i], nextView.children[i],
                           currentTree.childNodes[i], dom))

(***************************************************************************)
(* hydrate                                                                 *)
(***************************************************************************)
RECURSIVE hydrate(_, _, _)
RECURSIVE hydrateChildren(_, _, _, _)

\* hydrate(listener, nextView, currentTree).  With currentTree undefined
\* the first addEventListener, or the first currentTree.childNodes, raises
\* a TypeError.
hydrate(nextView, currentTree, dom) ==
    IF nextView.kind = "Text"
    THEN [tree |-> currentTree, view |-> nextView, dom |-> dom]
    ELSE IF currentTree.kind = "undefined"
    THEN [tree |-> currentTree, view |-> nextView,
          dom |-> IF Len(nextView.events) > 0 \/ Len(nextView.children) > 0
                  THEN Throw(dom) ELSE dom]
    ELSE LET withChildren(e) == hydrateChildren(e.view, e.tree, 1, e.dom)
         IN withChildren(attachListeners(currentTree, nextView, dom))

\* (mutant) a child of the AST without a live node at its index is built
\* and appended
hydrateChildrenBuilds(nextView, currentTree, i, dom) ==
    IF i > Len(nextView.children) \/ dom.threw
    THEN [tree |-> currentTree, view |-> nextView, dom |-> dom]
    ELSE IF i > Len(currentTree.childNodes)
    THEN LET appended(b) ==
                 hydrateChildren(
                    [nextView EXCEPT !.children[i] = b.view],
                    [currentTree EXCEPT !.childNodes = Append(@, b.tree)],
                    i + 1, b.dom)
         IN appended(buildTree(nextView.children[i], dom))
    ELSE LET rest(h) ==
                 hydrateChildren(
                    [nextView EXCEPT !.children[i] = h.view],
                    [currentTree EXCEPT !.childNodes[i] = h.tree],
                    i + 1, h.dom)
         IN rest(hydrate(nextView.children[i], currentTree.childNodes[i],
                         dom))

\* for (let i = 0; i < nextView.children.length; i++) { .. }: a child of
\* the AST without a live node at its index is skipped.
hydrateChildren(nextView, currentTree, i, dom) ==
    IF i > Len(nextView.children) \/ dom.threw
    THEN [tree |-> currentTree, view |-> nextView, dom |-> dom]
    ELSE IF i > Len(currentTree.childNodes)
    THEN hydrateChildren(nextView, currentTree, i + 1, dom)
    ELSE LET rest(h) ==
                 hydrateChildren(
                    [nextView EXCEPT !.children[i] = h.view],
                    [currentTree EXCEPT !.childNodes[i] = h.tree],
                    i + 1, h.dom)
         IN rest(hydrate(nextView.children[i], currentTree.childNodes[i],
                         dom))

(***************************************************************************)
(* renderAsString, and root.innerHTML = markup.                            *)
(***************************************************************************)
\* String.prototype.indexOf(c): the index, from 0, of the first c; else -1
RECURSIVE indexFrom(_, _, _)
indexFrom(s, c, i) ==
    IF i > Len(s) THEN -1
    ELSE IF SubSeq(s, i, i) = c THEN i - 1
    ELSE indexFrom(s, c, i + 1)

indexOf(s, c) == indexFrom(s, c, 1)

\* Array.prototype.join(separator)
RECURSIVE joinWith(_, _, _)
joinWith(parts, separator, i) ==
    IF i > Len(parts) THEN ""
    ELSE IF i = Len(parts) THEN parts[i]
    ELSE parts[i] \o separator \o joinWith(parts, separator, i + 1)

renderAttributeAsString(attribute) ==
    IF attribute.kind = "BooleanAttribute"
    THEN IF attribute.value
         THEN attribute.key \o "=\"" \o attribute.key \o "\""
         ELSE ""
    ELSE IF indexOf(attribute.value, "\"") > 0
    THEN attribute.key \o "='" \o attribute.value \o "'"
    ELSE attribute.key \o "=\"" \o attribute.value \o "\""

RECURSIVE renderAsString(_)
renderAsString(html) ==
    IF html.kind = "Text" THEN html.content
    ELSE LET tagged(children, attributes) ==
                 IF Len(attributes) = 0
                 THEN "<" \o html.tag \o ">" \o children
                      \o "</" \o html.tag \o ">"
                 ELSE "<" \o html.tag \o " " \o attributes \o ">" \o children
                      \o "</" \o html.tag \o ">"
         IN tagged(joinWith([i \in 1..Len(html.children) |->
                                renderAsString(html.children[i])], "", 1),
                   joinWith([i \in 1..Len(html.attributes) |->
                                renderAttributeAsString(html.attributes[i])],
                            " ", 1))

\* The HTML parser behind innerHTML, for the markup renderAsString writes:
\* start tags with quoted attributes, end tags, and text.  It decodes no
\* character reference and knows the void element input.
\* The first position from i on that holds one of the characters `stop`.
RECURSIVE scan(_, _, _)
scan(s, i, stop) ==
    IF i > Len(s) \/ SubSeq(s, i, i) \in stop THEN i
    ELSE scan(s, i + 1, stop)

RECURSIVE skipSpaces(_, _)
skipSpaces(s, i) ==
    IF i <= Len(s) /\ SubSeq(s, i, i) = " " THEN skipSpaces(s, i + 1) ELSE i

startsWith(s, i, prefix) ==
    /\ i + Len(prefix) - 1 <= Len(s)
    /\ SubSeq(s, i, i + Len(prefix) - 1) = prefix

\* An attribute of a start tag: one whose name the tag already has is
\* dropped; class fills the class list with its distinct tokens.
parsedAttribute(el, key, value) ==
    IF key = "class"
    THEN IF el.classList # <<>> THEN el
         ELSE [el EXCEPT !.classList =
                    classListAdd(<<>>, SelectSeq(split(value),
                                                 LAMBDA c : c # ""), 1)]
    ELSE IF hasAttribute(el, key) THEN el
    ELSE domSetAttribute(el, key, value)

\* The attributes of a start tag from position i, to the position after
\* its closing >.
RECURSIVE parseAttributes(_, _, _)
parseAttributes(s, i, el) ==
    LET valued(key, from, to) ==
            parseAttributes(s, to + 1,
                            parsedAttribute(el, key, SubSeq(s, from, to - 1)))
        named(j, k) ==
            IF k <= Len(s) /\ SubSeq(s, k, k) = "="
            THEN IF k + 1 <= Len(s) /\ SubSeq(s, k + 1, k + 1) \in {"\"", "'"}
                 THEN valued(SubSeq(s, j, k - 1), k + 2,
                             scan(s, k + 2, {SubSeq(s, k + 1, k + 1)}))
                 ELSE valued(SubSeq(s, j, k - 1), k + 1,
                             scan(s, k + 1, {" ", ">"}) )
            ELSE parseAttributes(s, k,
                                 parsedAttribute(el, SubSeq(s, j, k - 1), ""))
        from(j) ==
            IF j > Len(s) THEN [el |-> el, i |-> j]
            ELSE IF SubSeq(s, j, j) = ">" THEN [el |-> el, i |-> j + 1]
            ELSE named(j, scan(s, j + 1, {"=", " ", ">"}))
    IN from(skipSpaces(s, i))

\* Elements that take no content; their end tag is ignored.
Void == {"input"}

\* The nodes parsed from position i up to the end of the markup or to an
\* end tag, in document order.
RECURSIVE parseNodes(_, _, _, _)
parseNodes(s, i, acc, dom) ==
    IF i > Len(s) \/ startsWith(s, i, "</")
    THEN [nodes |-> acc, i |-> i, dom |-> dom]
    ELSE IF SubSeq(s, i, i) = "<"
    THEN LET closed(tag, el, c) ==
                 parseNodes(s,
                            IF startsWith(s, c.i, "</" \o tag \o ">")
                            THEN c.i + Len(tag) + 3 ELSE c.i,
                            Append(acc, [el EXCEPT !.childNodes = c.nodes]),
                            c.dom)
             opened(tag, a) ==
                 closed(tag, a.el,
                        IF tag \in Void
                        THEN [nodes |-> <<>>, i |-> a.i,
                              dom |-> Created(dom, "parsedElement", tag)]
                        ELSE parseNodes(s, a.i, <<>>,
                                        Created(dom, "parsedElement", tag)))
             tagged(k) ==
                 opened(SubSeq(s, i + 1, k - 1),
                        parseAttributes(s, k,
                            createElement(SubSeq(s, i + 1, k - 1), dom.nid)))
         IN tagged(scan(s, i + 1, {" ", ">"}))
    ELSE LET texted(e) ==
                 parseNodes(s, e,
                            Append(acc, createTextNode(SubSeq(s, i, e - 1),
                                                       dom.nid)),
                            Created(dom, "parsedText", SubSeq(s, i, e - 1)))
         IN texted(scan(s, i + 1, {"<"}))

\* root.innerHTML = markup: the child nodes parsed and the trace
innerHTML(markup, dom) == parseNodes(markup, 1, <<>>, dom)

(***************************************************************************)
(* The application: the name collector.                                    *)
(***************************************************************************)
Noop == [kind |-> "Noop"]

Click == [kind |-> "Click"]

ClickWithDelay == [kind |-> "ClickWithDelay"]

SetCurrentName(value) == [kind |-> "SetCurrentName", value |-> value]

Remove(name) == [kind |-> "Remove", name |-> name]

Check(name) == [kind |-> "Check", name |-> name]

AddName(name) == [kind |-> "AddName", name |-> name]

initialModel == [currentName |-> "", names |-> <<>>, checkedNames |-> <<>>]

\* What a call of update does: the model it returns, the messages it passes
\* to send before it returns (now) and those it leaves to a timer (later).
Returns(model) == [model |-> model, now |-> <<>>, later |-> <<>>]

\* names.filter((name) => name !== removed)
filter(names, removed) == SelectSeq(names, LAMBDA name : name # removed)

update(message, model) ==
    CASE message.kind = "Noop" -> Returns(model)
      [] message.kind = "Click" ->
            Returns([model EXCEPT
                        !.names = Append(model.names, model.currentName),
                        !.checkedNames = Append(model.names,
                                                model.currentName),
                        !.currentName = ""])
      [] message.kind = "ClickWithDelay" ->
            [model |-> model, now |-> <<>>, later |-> <<Click>>]
      [] message.kind = "SetCurrentName" ->
            Returns([model EXCEPT !.currentName = message.value])
      [] message.kind = "Remove" ->
            Returns([model EXCEPT !.names = filter(@, message.name)])
      [] message.kind = "Check" ->
            IF ~includes(model.checkedNames, message.name)
            THEN Returns([model EXCEPT
                            !.checkedNames = Append(@, message.name)])
            ELSE Returns([model EXCEPT
                            !.checkedNames = filter(@, message.name)])
      [] message.kind = "AddName" ->
            Returns([model EXCEPT
                        !.names = Append(model.names, message.name),
                        !.checkedNames = Append(model.names, message.name)])

\* A converter that ignores the native event: () => message
Always(message) == [fn |-> "always", message |-> message]

\* (data) => SetCurrentName(data.target.value)
TargetValue == [fn |-> "SetCurrentName(data.target.value)"]

\* event.messageConverter(data); data stands for data.target.value
messageConverter(event, data) ==
    IF event.messageConverter.fn = "always"
    THEN event.messageConverter.message
    ELSE SetCurrentName(data)

\* names.join(", ")
RECURSIVE join(_, _)
join(names, i) ==
    IF i > Len(names) THEN ""
    ELSE IF i = Len(names) THEN names[i]
    ELSE names[i] \o ", " \o join(names, i + 1)

viewTitle ==
    h1(<<text("Name collector")>>, <<>>,
       <<StringAttribute("class", "title")>>)

viewNameEntry(model) ==
    div(<<text("Enter a name"),
          input(<<>>, <<on("input", TargetValue)>>,
                <<StringAttribute("value", model.currentName)>>),
          button(<<text("Add")>>, <<on("click", Always(Click))>>, <<>>),
          button(<<text("Add with a delay")>>,
                 <<on("click", Always(ClickWithDelay))>>, <<>>)>>,
        <<>>, <<>>)

viewName(name, isChecked) ==
    div(<<input(<<>>, <<on("click", Always(Check(name)))>>,
                <<StringAttribute("type", "checkbox"),
                  BooleanAttribute("checked", isChecked)>>),
          text(name),
          button(<<text("Remove this name")>>,
                 <<on("click", Always(Remove(name)))>>, <<>>)>>,
        <<>>,
        <<StringAttribute("class",
                          IF isChecked THEN "name-list-item checked"
                          ELSE "name-list-item")>>)

viewNames(model) ==
    div([i \in 1..Len(model.names) |->
            viewName(model.names[i],
                     includes(model.checkedNames, model.names[i]))]
        \o <<div(<<text("Checked names: " \o join(model.checkedNames, 1))>>,
                 <<>>, <<>>)>>,
        <<>>, <<>>)

view(model) ==
    div(<<viewTitle, viewNameEntry(model), viewNames(model)>>, <<>>, <<>>)

(***************************************************************************)
(* runProgram takes any Program.  A second Program, small enough to        *)
(* enumerate: its view changes the kind and the tag of the root, and its   *)
(* update for IncNow passes a message to send before it returns, which     *)
(* the type of update allows.                                              *)
(***************************************************************************)
Inc == [kind |-> "Inc"]

IncNow == [kind |-> "IncNow"]

counterUpdate(message, model) ==
    CASE message.kind = "Inc" -> Returns((model + 1) % 4)
      [] message.kind = "IncNow" ->
            [model |-> model, now |-> <<Inc>>, later |-> <<>>]

counterView(model) ==
    CASE model = 0 -> text("zero")
      [] model = 1 ->
            div(<<text("one")>>, <<on("click", Always(Inc))>>, <<>>)
      [] model = 2 ->
            div(<<text("two")>>, <<on("click", Always(IncNow))>>, <<>>)
      [] model = 3 ->
            h1(<<text("three")>>, <<on("click", Always(Inc))>>, <<>>)

\* A third Program: one element with two descriptors for the same event.
\* The model counts the messages received.
twiceUpdate(message, model) == Returns((model + 1) % 4)

twiceView(model) ==
    div(<<text(IF model % 2 = 0 THEN "even" ELSE "odd")>>,
        <<on("click", Always(Inc)), on("click", Always(Inc))>>, <<>>)

\* A fourth Program: the root changes its tag and the number of its
\* children.
resizeUpdate(message, model) == Returns((model + 1) % 3)

resizeView(model) ==
    CASE model = 0 -> div(<<text("a"), text("b")>>, <<>>, <<>>)
      [] model = 1 -> h1(<<text("a")>>, <<>>, <<>>)
      [] model = 2 -> h1(<<text("a"), text("b")>>, <<>>, <<>>)

Programs == {"names", "counter", "twice", "resize"}

\* program.initialModel
programInitialModel(prog) == IF prog = "names" THEN initialModel ELSE 0

\* program.update(msg, currentModel, listener)
programUpdate(prog, message, model) ==
    IF prog = "names" THEN update(message, model)
    ELSE IF prog = "counter" THEN counterUpdate(message, model)
    ELSE IF prog = "twice" THEN twiceUpdate(message, model)
    ELSE resizeUpdate(message, model)

\* program.view(currentModel)
programView(prog, model) ==
    IF prog = "names" THEN view(model)
    ELSE IF prog = "counter" THEN counterView(model)
    ELSE IF prog = "twice" THEN twiceView(model)
    ELSE resizeView(model)

(***************************************************************************)
(* The dispatch loop: the closure `listener` of runProgram and of          *)
(* runProgramWithHydration.  `st` holds the variables the closure shares   *)
(* with the entry point, the mount point and the pending timers.           *)
(***************************************************************************)
Null == [id |-> 0, kind |-> "null"]

\* previousView = nextView, after patch returned; the node the closure
\* holds stays the one it was given: when patch replaced it, currentTree
\* names the replaced node.  An exception leaves previousView as it was.
\* The status patch returned is written to the console before the
\* assignment.
stored(st, r) ==
    LET patched ==
            [st EXCEPT
                !.root.childNodes =
                    [i \in 1..Len(@) |->
                        IF @[i].id = st.currentTree.id THEN r.tree
                        ELSE @[i]],
                !.currentTree = IF r.tree.id = @.id THEN r.tree ELSE @,
                !.dom = r.dom]
    IN IF r.dom.threw THEN patched
       ELSE [patched EXCEPT
                !.previousView = r.view,
                !.dom = Logged(Logged(r.dom, [op |-> "store",
                                              next |-> Bare(r.view),
                                              status |-> r.status]),
                               [op |-> "return"])]

\* (mutant) the callback is never queued
setTimeoutDropped(timers, later) == timers

\* setTimeout(() => { send(..) }, 3000), for each message update leaves to
\* a timer: the callbacks are queued in the order of the calls
setTimeout(timers, later) == timers \o later

\* if (currentTree === null) return
guard(tree) == tree.kind = "null"

RECURSIVE listener(_, _, _)
RECURSIVE sendAll(_, _, _, _)

\* listener(msg)
listener(prog, msg, st) ==
    IF guard(st.currentTree) THEN st
    ELSE LET patchedWith(s, nextView) ==
                 stored(s, patch(s.previousView, nextView, s.currentTree,
                                 Logged(s.dom, [op |-> "view",
                                                next |-> nextView])))
             viewed(s) == patchedWith(s, programView(prog, s.currentModel))
             updated(u, s) ==
                 IF s.dom.threw THEN s
                 ELSE viewed([s EXCEPT
                                !.currentModel = u.model,
                                !.dom = Logged(@, [op |-> "update",
                                                   message |-> msg,
                                                   model |-> u.model])])
             called(u) ==
                 updated(u,
                    sendAll(prog, u.now, 1,
                        [st EXCEPT
                            !.timers = setTimeout(@, u.later),
                            !.dom = Logged(@,
                                [op |-> "listener", message |-> msg,
                                 model |-> st.currentModel,
                                 previous |-> Bare(st.previousView)])]))
         IN called(programUpdate(prog, msg, st.currentModel))

\* The calls of send that update makes before it returns.
sendAll(prog, messages, i, st) ==
    IF i > Len(messages) \/ st.dom.threw THEN st
    ELSE sendAll(prog, messages, i + 1, listener(prog, messages[i], st))

\* A call of the listener from the host: from a native event, a timer or
\* the caller of send.  An exception is reported by the host and ends the
\* call.
enter(prog, msg, st) ==
    LET reported(s) ==
            IF s.dom.threw
            THEN [s EXCEPT !.dom = [Logged(@, [op |-> "uncaught"])
                                        EXCEPT !.threw = FALSE]]
            ELSE s
    IN reported(listener(prog, msg, st))

\* The nodes of a tree.
RECURSIVE Nodes(_)
Nodes(tree) ==
    IF tree.kind \in {"null", "undefined"} THEN {}
    ELSE {tree} \cup UNION {Nodes(tree.childNodes[i]) :
                              i \in 1..Len(tree.childNodes)}

Mounted(r) == UNION {Nodes(r.childNodes[i]) : i \in 1..Len(r.childNodes)}

\* The node with this identity among the nodes the program can reach.
Reachable(st) == Mounted(st.root) \cup Nodes(st.currentTree)

\* The tree with listener `lid` taken off the node `id`.
RECURSIVE withoutListener(_, _, _)
withoutListener(tree, id, lid) ==
    IF tree.kind \in {"null", "undefined"} THEN tree
    ELSE [tree EXCEPT
            !.listeners = IF tree.id = id
                          THEN SelectSeq(@, LAMBDA l : l.listener # lid)
                          ELSE @,
            !.childNodes = [i \in 1..Len(@) |->
                               withoutListener(@[i], id, lid)]]

\* (mutant) the listener stays on its element when it is called
onceKept(st, id, lid) == st

\* once: true - the listener is taken off its element before it is called
onceRemoved(st, id, lid) ==
    [st EXCEPT
        !.root.childNodes = [i \in 1..Len(@) |->
                                withoutListener(@[i], id, lid)],
        !.currentTree = withoutListener(@, id, lid)]

\* A native event on the node `id`: the listeners registered for it when
\* the event is fired are called in order; one that an earlier listener's
\* patch has removed in the meantime is not called.  `loose` holds the
\* listeners of the node as last seen, for a node that has left the tree.
RECURSIVE fire(_, _, _, _, _, _, _)
fire(prog, id, snapshot, i, data, loose, st) ==
    IF i > Len(snapshot) THEN st
    ELSE LET here == {n \in Reachable(st) : n.id = id}
             now == IF here = {} THEN loose
                    ELSE {l.listener :
                            l \in Range((CHOOSE n \in here : TRUE).listeners)}
         IN IF snapshot[i].listener \in now
            THEN fire(prog, id, snapshot, i + 1, data,
                      now \ {snapshot[i].listener},
                      enter(prog, messageConverter(snapshot[i].event, data),
                            onceRemoved(st, id, snapshot[i].listener)))
            ELSE fire(prog, id, snapshot, i + 1, data, now, st)

(***************************************************************************)
(* The page and what enters the program.                                   *)
(***************************************************************************)
Roots == {"missing", "empty", "static"}

\* root.children[0]: the first child of root that is an element
firstElementChild(root) ==
    IF \E i \in 1..Len(root.childNodes) : root.childNodes[i].kind = "Element"
    THEN SelectSeq(root.childNodes, LAMBDA n : n.kind = "Element")[1]
    ELSE Undefined

\* The messages the caller of send passes; the other messages of the name
\* collector come from its event descriptors and from its timer.
Messages(prog) ==
    IF prog = "names" THEN {Noop, AddName("Bob")}
    ELSE IF prog = "counter" THEN {Inc, IncNow}
    ELSE {Inc}

\* What the user types into the input element.
Typed == {"Ada"}

NotRunning == [send |-> "none", model |-> 0]

\* (mutant) without a mount point the listener is returned all the same
fallbackListens(model) == [send |-> "listener", model |-> model]

\* return { send: () => {}, model: currentModel }
fallback(model) == [send |-> "noop", model |-> model]

LoopIdle ==
    /\ program = "names"
    /\ started = "idle"
    /\ loop = [currentModel |-> 0, previousView |-> Null,
               currentTree |-> Null,
               root |-> [exists |-> FALSE, childNodes |-> <<>>],
               timers |-> <<>>, dom |-> NoDom]
    /\ running = NotRunning
    /\ calls = 0
    /\ errors = 0
    /\ lastCall = [op |-> "idle"]

PatchIdle ==
    /\ pStage = "idle"
    /\ pPrevious = Null
    /\ pNext = Null
    /\ pParent = Null
    /\ pBuilt = Null
    /\ pStatus = NoStatus
    /\ pDom = NoDom
    /\ pAttribute = Null

(***************************************************************************)
(* The reconciler of src/src/index.ts: its Node has no attributes, its     *)
(* tags are div, h1 and button, a Text node is always replaced, and the    *)
(* removal loop compares with nextView.children.length.                    *)
(***************************************************************************)
RECURSIVE IndexTsHtml(_)
\* An Html value of index.ts: type Tag, type Node without attributes.
IndexTsHtml(html) ==
    \/ html.kind = "Text"
    \/ /\ html.kind = "Node"
       /\ html.tag \in {"div", "h1", "button"}
       /\ html.attributes = <<>>
       /\ \A i \in 1..Len(html.children) : IndexTsHtml(html.children[i])

\* buildTree of index.ts: the statements of the final runtime's buildTree
\* without the loop over html.attributes, which is empty for these values.
buildTreeIndexTs(html, dom) == buildTree(html, dom)

\* patchEvents of index.ts: statement for statement that of the final runtime.
patchEventsIndexTs(previousView, nextView, currentTree, dom) ==
    patchEvents(previousView, nextView, currentTree, dom)

\* currentTree.replaceWith(buildTree(listener, nextView));
\* return { ...status, replaced: 1 }
replaceWithBuiltIndexTs(nextView, currentTree, dom) ==
    LET spliced(b) ==
            [tree |-> IF b.dom.threw THEN currentTree ELSE b.tree,
             view |-> b.view,
             status |-> [NoStatus EXCEPT !.replaced = 1],
             dom |-> IF b.dom.threw THEN b.dom
                     ELSE Logged(b.dom, [op |-> "replaceWith",
                                         node |-> currentTree.id,
                                         key |-> b.tree.id])]
    IN spliced(buildTreeIndexTs(nextView, dom))

\* i > nextView.children.length, the condition of index.ts's removal loop
isExcessIndexTs(i, nextView) == i > Len(nextView.children)

\* index.ts's loop over the excess children, from the last index down; i is
\* the index of the source, i + 1 the position in childNodes.
RECURSIVE removeExcessIndexTs(_, _, _, _, _)
removeExcessIndexTs(nextView, currentTree, i, status, dom) ==
    IF isExcessIndexTs(i, nextView)
    THEN removeExcessIndexTs(
            nextView,
            [currentTree EXCEPT !.childNodes = RemoveAt(@, i + 1)],
            i - 1,
            [status EXCEPT !.removed = @ + 1],
            Logged(dom, [op |-> "removeChild",
                         node |-> currentTree.id,
                         key |-> currentTree.childNodes[i + 1].id]))
    ELSE [tree |-> currentTree, status |-> status, dom |-> dom]

RECURSIVE patchIndexTs(_, _, _, _)
RECURSIVE patchChildrenIndexTs(_, _, _, _, _, _)

\* patch of index.ts, with the results of patch above.
patchIndexTs(previousView, nextView, currentTree, dom) ==
    LET returned(c, r) ==
            [tree |-> r.tree, view |-> c.view,
             status |-> IF r.dom.threw THEN r.status
                        ELSE [r.status EXCEPT !.patched = @ + 1],
             dom |-> r.dom]
        pruned(c) ==
            returned(c, IF c.dom.threw
                        THEN [tree |-> c.tree, status |-> c.status,
                              dom |-> c.dom]
                        ELSE removeExcessIndexTs(c.view, c.tree,
                                                 Len(c.tree.childNodes) - 1,
                                                 c.status, c.dom))
        withChildren(e) ==
            pruned(IF e.dom.threw
                   THEN [tree |-> e.tree, view |-> e.view,
                         status |-> NoStatus, dom |-> e.dom]
                   ELSE patchChildrenIndexTs(previousView, e.view, e.tree, 1,
                                             NoStatus, e.dom))
        body(called) ==
            IF currentTree.kind = "undefined"
            THEN \* replaceWith, removeEventListener and childNodes of
                 \* undefined all raise a TypeError
                 [tree |-> currentTree, view |-> nextView,
                  status |-> NoStatus, dom |-> Throw(called)]
            ELSE IF \/ previousView.kind # nextView.kind
                    \/ previousView.kind = "Text"
                    \/ previousView.tag # nextView.tag
            THEN replaceWithBuiltIndexTs(nextView, currentTree, called)
            ELSE withChildren(patchEventsIndexTs(previousView, nextView,
                                                 currentTree, called))
    IN body(Logged(dom, [op |-> "patch", node |-> currentTree.id,
                         previous |-> Bare(previousView),
                         next |-> Bare(nextView)]))

\* for (let i = 0; i < nextView.children.length; i++) { .. } of index.ts; i
\* is the index of the source plus one.
patchChildrenIndexTs(previousView, nextView, currentTree, i, status, dom) ==
    IF i > Len(nextView.children) \/ dom.threw
    THEN [tree |-> currentTree, view |-> nextView, status |-> status,
          dom |-> dom]
    ELSE IF i > Len(currentTree.childNodes)
    THEN LET appended(b) ==
                 IF b.dom.threw \/ currentTree.kind # "Element"
                 THEN [tree |-> currentTree,
                       view |-> [nextView EXCEPT !.children[i] = b.view],
                       status |-> status, dom |-> Throw(b.dom)]
                 ELSE patchChildrenIndexTs(
                        previousView,
                        [nextView EXCEPT !.children[i] = b.view],
                        [currentTree EXCEPT
                            !.childNodes = Append(@, b.tree)],
                        i + 1,
                        [status EXCEPT !.added = @ + 1],
                        Logged(b.dom, [op |-> "appendChild",
                                       node |-> currentTree.id,
                                       key |-> b.tree.id]))
         IN appended(buildTreeIndexTs(nextView.children[i], dom))
    ELSE IF i > Len(previousView.children)
    THEN \* previousChild is undefined: previousView.kind raises a TypeError
         [tree |-> currentTree, view |-> nextView, status |-> status,
          dom |-> Throw(dom)]
    ELSE LET recursed(childPatched) ==
                 patchChildrenIndexTs(
                    previousView,
                    [nextView EXCEPT !.children[i] = childPatched.view],
                    [currentTree EXCEPT !.childNodes[i] = childPatched.tree],
                    i + 1,
                    IF childPatched.dom.threw THEN status
                    ELSE addStatus(status, childPatched.status),
                    childPatched.dom)
         IN recursed(patchIndexTs(previousView.children[i],
                                  nextView.children[i],
                                  currentTree.childNodes[i], dom))

(***************************************************************************)
(* The reconciler on its own: an AST is built under a parent element and   *)
(* then patched against a second AST (Patch), or against itself            *)
(* (PatchSame: previousView and nextView are then one object).             *)
(***************************************************************************)
TextLeaves == {text("x"), text("y")}

Leaves == TextLeaves \cup {button(<<>>, <<on("click", Always(Click))>>, <<>>)}

\* Elements whose children are leaves
Flat == {div(children, <<>>, <<>>) : children \in SeqsUpTo(Leaves, MaxChildren)}
        \cup {h1(children, <<>>, <<>>) : children \in SeqsUpTo(Leaves, 1)}

\* Elements whose children have children of their own
Inner == TextLeaves \cup {div(<<text("x")>>, <<>>, <<>>),
                          div(<<text("y"), text("x")>>, <<>>, <<>>),
                          h1(<<text("x")>>, <<>>, <<>>)}

Nested == {div(children, <<>>, <<>>) : children \in [1..2 -> Inner]}

\* String attributes applied through element.setAttribute
PlainAttributes == {StringAttribute("a", "1"), StringAttribute("b", "2"),
                    StringAttribute("b", "3"), StringAttribute("c", "3")}

distinctKeys(attributes) ==
    \A i, j \in 1..Len(attributes) :
        attributes[i].key = attributes[j].key => i = j

Attributed == {div(<<>>, <<>>, attributes) :
                  attributes \in {l \in SeqsUpTo(PlainAttributes, 2) :
                                     distinctKeys(l)}}

\* Elements with event descriptors
Listening == {node(tag, <<>>, events, <<>>) :
                 tag \in {"div", "button"},
                 events \in {<<on("click", Always(Click))>>,
                             <<on("click", Always(Click)),
                               on("input", Always(Noop))>>}}

\* A text holding the characters of a tag, and the input element of the
\* name collector with a name typed
Written == {div(<<text("<b>")>>, <<>>, <<>>),
            input(<<>>, <<>>, <<StringAttribute("value", "Ada")>>)}

\* An element with event descriptors, children and attributes at once
Complete ==
    {div(<<text("x"),
           button(<<text("y")>>, <<on("click", Always(Click))>>, <<>>)>>,
         <<on("click", Always(Click)), on("input", Always(Noop))>>,
         <<StringAttribute("a", "1"), StringAttribute("b", "2")>>)}

\* Elements that lose what an earlier view had set through the property
\* assignment or the class rule
Dropping == {input(<<>>, <<>>, <<>>),
             div(<<>>, <<>>, <<StringAttribute("class", "a b")>>)}

Asts == Leaves \cup Flat \cup Nested \cup Attributed \cup Listening
        \cup Written \cup Complete \cup Dropping

PatchInit ==
    /\ pStage = "start"
    /\ pPrevious \in Asts
    /\ pNext \in Asts
    /\ pParent = createElement("div", 1)
    /\ pBuilt = Undefined
    /\ pStatus = NoStatus
    /\ pDom = [NoDom EXCEPT !.nid = 2]
    /\ pAttribute = Null
    /\ LoopIdle

\* T = buildTree(listener, P); parent.appendChild(T)
Build ==
    /\ pStage = "start"
    /\ LET mounted(b) ==
               /\ pPrevious' = b.view
               /\ pBuilt' = b.tree
               /\ pParent' = [pParent EXCEPT !.childNodes = <<b.tree>>]
               /\ pDom' = b.dom
       IN mounted(buildTree(pPrevious, [pDom EXCEPT !.log = <<>>]))
    /\ pStage' = "built"
    /\ UNCHANGED <<pNext, pStatus, loopVars, pAttribute>>

\* patch(listener, P, N, T)
Patch ==
    /\ pStage = "built"
    /\ LET patched(r) ==
               /\ pNext' = r.view
               /\ pParent' = [pParent EXCEPT !.childNodes = <<r.tree>>]
               /\ pStatus' = r.status
               /\ pDom' = r.dom
       IN patched(patch(pPrevious, pNext, pParent.childNodes[1],
                        [pDom EXCEPT !.log = <<>>]))
    /\ pStage' = "patched"
    /\ UNCHANGED <<pPrevious, pBuilt, loopVars, pAttribute>>

\* patch(listener, A, A, T)
PatchSame ==
    /\ pStage = "built"
    /\ LET patched(r) ==
               /\ pNext' = r.view
               /\ pPrevious' = r.view
               /\ pParent' = [pParent EXCEPT !.childNodes = <<r.tree>>]
               /\ pStatus' = r.status
               /\ pDom' = r.dom
       IN patched(patch(pPrevious, pPrevious, pParent.childNodes[1],
                        [pDom EXCEPT !.log = <<>>]))
    /\ pStage' = "patchedSame"
    /\ UNCHANGED <<pBuilt, loopVars, pAttribute>>

\* parent.innerHTML = renderAsString(P): a tree without listeners; every
\* AST of the model renders to markup with one root node
Render ==
    /\ pStage = "start"
    /\ LET rendered(b) ==
               /\ pBuilt' = b.nodes[1]
               /\ pParent' = [pParent EXCEPT !.childNodes = b.nodes]
               /\ pDom' = b.dom
       IN rendered(innerHTML(renderAsString(pPrevious),
                             [pDom EXCEPT !.log = <<>>]))
    /\ pStage' = "rendered"
    /\ UNCHANGED <<pPrevious, pNext, pStatus, loopVars, pAttribute>>

\* hydrate(listener, N, T), T matching N or not
Hydrate ==
    /\ pStage = "rendered"
    /\ LET hydrated(h) ==
               /\ pNext' = h.view
               /\ pParent' = [pParent EXCEPT !.childNodes = <<h.tree>>]
               /\ pDom' = h.dom
       IN hydrated(hydrate(pNext, pParent.childNodes[1],
                           [pDom EXCEPT !.log = <<>>]))
    /\ pStage' = "hydrated"
    /\ UNCHANGED <<pPrevious, pBuilt, pStatus, loopVars, pAttribute>>

\* patch(listener, P, N, T) of src/src/index.ts, for views it can describe
PatchIndexTs ==
    /\ pStage = "built"
    /\ IndexTsHtml(pPrevious)
    /\ IndexTsHtml(pNext)
    /\ LET patched(r) ==
               /\ pNext' = r.view
               /\ pParent' = [pParent EXCEPT !.childNodes = <<r.tree>>]
               /\ pStatus' = r.status
               /\ pDom' = r.dom
       IN patched(patchIndexTs(pPrevious, pNext, pParent.childNodes[1],
                               [pDom EXCEPT !.log = <<>>]))
    /\ pStage' = "patchedIndexTs"
    /\ UNCHANGED <<pPrevious, pBuilt, loopVars, pAttribute>>

\* The first cycle after hydration: patch(listener, N, P, T), where N holds
\* the listeners hydrate registered
PatchHydrated ==
    /\ pStage = "hydrated"
    /\ LET patched(r) ==
               /\ pPrevious' = r.view
               /\ pParent' = [pParent EXCEPT !.childNodes = <<r.tree>>]
               /\ pStatus' = r.status
               /\ pDom' = r.dom
       IN patched(patch(pNext, pPrevious, pParent.childNodes[1],
                        [pDom EXCEPT !.log = <<>>]))
    /\ pStage' = "patchedHydrated"
    /\ UNCHANGED <<pNext, pBuilt, loopVars, pAttribute>>

PatchNext == Build \/ Patch \/ PatchSame \/ Render \/ Hydrate
             \/ PatchHydrated \/ PatchIndexTs

SpecPatch == PatchInit /\ [][PatchNext]_vars

(***************************************************************************)
(* setAttribute on its own: an element in a state that earlier calls of    *)
(* setAttribute or the markup of the page gave it, and one call.           *)
(***************************************************************************)
\* The elements isProperty tells apart, and two it does not.
ElementTags ==
    {"div", "h1", "button", "input", "option", "textarea", "select",
     "optgroup"}

Classes == {"a", "b", "c"}

\* The class lists an element holds: tokens without repetition.
ClassLists ==
    {l \in SeqsUpTo(Classes, MaxClasses) :
        \A i, j \in 1..Len(l) : l[i] = l[j] => i = j}

\* The attributes the element carries before the call.
PriorAttributes ==
    {{}, {[key |-> "hidden", value |-> "hidden"]},
     {[key |-> "hidden", value |-> ""]},
     {[key |-> "disabled", value |-> "disabled"],
      [key |-> "a", value |-> "1"]}}

Keys ==
    {"checked", "indeterminate", "value", "readonly", "disabled",
     "selected", "hidden", "a"}

\* The attributes passed to setAttribute: those with a string value
StringAttributes ==
    {StringAttribute("class", v) : v \in {"a", "c", "a b", "b c", ""}}
    \cup {StringAttribute(k, "1") : k \in Keys}

\* and those with a boolean value
BooleanAttributes == {BooleanAttribute(k, b) : k \in Keys, b \in BOOLEAN}

AttrInit ==
    /\ pStage = "element"
    /\ pPrevious = Null
    /\ pNext = Null
    /\ \E tag \in ElementTags, classList \in ClassLists,
          attrs \in PriorAttributes :
          pBuilt = [createElement(tag, 2) EXCEPT !.classList = classList,
                                                 !.attrs = attrs]
    /\ pParent = [createElement("div", 1) EXCEPT !.childNodes = <<pBuilt>>]
    /\ pStatus = NoStatus
    /\ pDom = [NoDom EXCEPT !.nid = 3]
    /\ pAttribute = Null
    /\ LoopIdle

\* The call setAttribute(currentTree, attr) on the element under pParent.
Set(attr) ==
    /\ pAttribute' = attr
    /\ pBuilt' = pParent.childNodes[1]
    /\ LET set(r) ==
               /\ pParent' = [pParent EXCEPT !.childNodes = <<r.tree>>]
               /\ pDom' = r.dom
       IN set(setAttribute(pParent.childNodes[1], attr,
                           [pDom EXCEPT !.log = <<>>]))

\* setAttribute(currentTree, attribute)
SetAttribute ==
    /\ pStage = "element"
    /\ \/ \E attr \in StringAttributes : Set(attr)
       \/ \E attr \in BooleanAttributes : Set(attr)
    /\ pStage' = "set"
    /\ UNCHANGED <<pPrevious, pNext, pStatus, loopVars>>

\* A second call on the same element with the same key
SetAttributeAgain ==
    /\ pStage = "set"
    /\ ~pDom.threw
    /\ pAttribute.key \in {"class", "hidden"}
    /\ \/ \E attr \in StringAttributes :
             attr.key = pAttribute.key /\ Set(attr)
       \/ \E attr \in BooleanAttributes :
             attr.key = pAttribute.key /\ Set(attr)
    /\ pStage' = "setAgain"
    /\ UNCHANGED <<pPrevious, pNext, pStatus, loopVars>>

AttrNext == SetAttribute \/ SetAttributeAgain

SpecAttr == AttrInit /\ [][AttrNext]_vars

(***************************************************************************)
(* update of the name collector as a function of the messages it          *)
(* receives, from the initial model: the model is held in                  *)
(* loop.currentModel and the message in lastCall.                          *)
(***************************************************************************)
\* What the user types into the input element, or passes to AddName.
Entered == {"Ada", "Bob"}

\* The messages of the name collector in a model: Check and Remove come
\* from the entry of a name of the list.
UpdateMessages(model) ==
    {Noop, Click, ClickWithDelay}
    \cup {SetCurrentName(value) : value \in Entered}
    \cup {AddName(name) : name \in Entered}
    \cup {Check(name) : name \in Range(model.names)}
    \cup {Remove(name) : name \in Range(model.names)}

UpdateInit ==
    /\ program = "names"
    /\ started = "update"
    /\ loop = [currentModel |-> initialModel, previousView |-> Null,
               currentTree |-> Null,
               root |-> [exists |-> FALSE, childNodes |-> <<>>],
               timers |-> <<>>, dom |-> NoDom]
    /\ running = NotRunning
    /\ calls = 0
    /\ errors = 0
    /\ lastCall = [op |-> "idle"]
    /\ PatchIdle

\* currentModel = program.update(msg, currentModel, listener)
Update ==
    /\ started = "update"
    /\ \E msg \in UpdateMessages(loop.currentModel) :
          /\ msg.kind \in {"Click", "AddName"}
                => Len(loop.currentModel.names) < MaxNames
          /\ lastCall' = [op |-> "update", message |-> msg]
          /\ loop' = [loop EXCEPT !.currentModel = update(msg, @).model]
    /\ UNCHANGED <<program, started, running, calls, errors, patchVars>>

SpecUpdate == UpdateInit /\ [][Update]_vars

(***************************************************************************)
(* renderAttributeAsString as a function of the attribute: the attribute   *)
(* is held in pAttribute and the string returned in lastCall.              *)
(***************************************************************************)
\* The characters of an attribute value: a letter and the two quotes.
Letters == {"a", "\"", "'"}

\* The strings over Letters of length at most n.
RECURSIVE Texts(_)
Texts(n) ==
    IF n = 0 THEN {""}
    ELSE Texts(n - 1)
         \cup {value \o c : value \in Texts(n - 1), c \in Letters}

\* attribute(key, value) with a string value
QuotedAttributes ==
    {StringAttribute(key, value) :
        key \in {"title", "value"}, value \in Texts(MaxValue)}

RenderInit ==
    /\ pStage = "attribute"
    /\ pPrevious = Null
    /\ pNext = Null
    /\ pParent = Null
    /\ pBuilt = Null
    /\ pStatus = NoStatus
    /\ pDom = NoDom
    /\ \/ \E attr \in QuotedAttributes : pAttribute = attr
       \/ \E attr \in BooleanAttributes : pAttribute = attr
    /\ LoopIdle

\* renderAttributeAsString(attribute)
RenderAttribute ==
    /\ pStage = "attribute"
    /\ pStage' = "attributeRendered"
    /\ lastCall' = [op |-> "renderAttributeAsString",
                    returned |-> renderAttributeAsString(pAttribute)]
    /\ UNCHANGED <<program, started, loop, running, calls, errors,
                   pPrevious, pNext, pParent, pBuilt, pStatus, pDom,
                   pAttribute>>

SpecRender == RenderInit /\ [][RenderAttribute]_vars


(***************************************************************************)
(* The program in the page: the page is loaded with or without the mount   *)
(* point, empty or filled by staticMain; one of the two entry points is    *)
(* called once; then messages arrive from the caller of send, from native  *)
(* events on the mounted nodes and from timers.                            *)
(***************************************************************************)
Init ==
    /\ program \in Programs
    /\ started = "no"
    /\ \E which \in Roots :
          LET loaded(s) ==
                  loop = [currentModel |-> programInitialModel(program),
                          previousView |-> Null,
                          currentTree |-> Null,
                          root |-> [exists |-> which # "missing",
                                    childNodes |->
                                        IF which = "static" THEN s.nodes
                                        ELSE <<>>],
                          timers |-> <<>>,
                          dom |-> [s.dom EXCEPT !.log = <<>>]]
          IN loaded(innerHTML(
                        renderAsString(
                            programView(program,
                                        programInitialModel(program))),
                        NoDom))
    /\ running = NotRunning
    /\ calls = 0
    /\ errors = 0
    /\ lastCall = [op |-> "load"]
    /\ PatchIdle

\* An exception that leaves the entry point is reported by the host.
reported(dom) ==
    IF dom.threw
    THEN [Logged(dom, [op |-> "uncaught"]) EXCEPT !.threw = FALSE]
    ELSE dom

\* runProgram(program)
RunProgram ==
    /\ started = "no"
    /\ started' = "runProgram"
    /\ lastCall' = [op |-> "runProgram"]
    /\ IF loop.root.exists
       THEN /\ LET mounted(b) ==
                       loop' = [loop EXCEPT
                                   !.previousView = b.view,
                                   !.currentTree = b.tree,
                                   !.root.childNodes = <<b.tree>>,
                                   !.dom = b.dom]
               IN mounted(buildTree(programView(program, loop.currentModel),
                                    [loop.dom EXCEPT !.log = <<>>]))
            /\ running' = [send |-> "listener", model |-> loop.currentModel]
            /\ errors' = errors
       ELSE /\ loop' = [loop EXCEPT
                           !.previousView =
                               programView(program, loop.currentModel),
                           !.dom.log = <<>>]
            /\ running' = fallback(loop.currentModel)
            /\ errors' = errors + 1
    /\ UNCHANGED <<program, calls, patchVars>>

\* runProgramWithHydration(program)
RunProgramWithHydration ==
    /\ started = "no"
    /\ started' = "runProgramWithHydration"
    /\ lastCall' = [op |-> "runProgramWithHydration"]
    /\ IF loop.root.exists
       THEN /\ LET hydrated(h) ==
                       /\ loop' = [loop EXCEPT
                                      !.previousView = h.view,
                                      !.currentTree = h.tree,
                                      !.root.childNodes =
                                          [i \in 1..Len(@) |->
                                              IF @[i].id = h.tree.id
                                              THEN h.tree ELSE @[i]],
                                      !.dom = reported(h.dom)]
                       /\ running' =
                              IF h.dom.threw
                              THEN [send |-> "threw",
                                    model |-> loop.currentModel]
                              ELSE [send |-> "listener",
                                    model |-> loop.currentModel]
               IN hydrated(hydrate(programView(program, loop.currentModel),
                                   firstElementChild(loop.root),
                                   [loop.dom EXCEPT !.log = <<>>]))
            /\ errors' = errors
       ELSE /\ loop' = [loop EXCEPT
                           !.previousView =
                               programView(program, loop.currentModel),
                           !.dom.log = <<>>]
            /\ running' = fallback(loop.currentModel)
            /\ errors' = errors + 1
    /\ UNCHANGED <<program, calls, patchVars>>

\* running.send(msg)
Send ==
    /\ running.send \in {"listener", "noop"}
    /\ calls < MaxCalls
    /\ \E msg \in Messages(program) :
          /\ lastCall' = [op |-> "send", message |-> msg]
          /\ loop' = IF running.send = "noop"
                     THEN [loop EXCEPT !.dom.log = <<>>]
                     ELSE enter(program, msg, [loop EXCEPT !.dom.log = <<>>])
    /\ calls' = calls + 1
    /\ UNCHANGED <<program, started, running, errors, patchVars>>

\* The user acts on a mounted node that has listeners for the event.
FireEvent ==
    /\ calls < MaxCalls
    /\ \E target \in Mounted(loop.root) :
          \E name \in {l.name : l \in Range(target.listeners)} :
             \E data \in Typed :
                LET snapshot == SelectSeq(target.listeners,
                                          LAMBDA l : l.name = name)
                IN /\ lastCall' = [op |-> "event", target |-> target.id,
                                   name |-> name, listeners |-> snapshot]
                   /\ loop' = fire(program, target.id, snapshot, 1, data, {},
                                   [loop EXCEPT !.dom.log = <<>>])
    /\ calls' = calls + 1
    /\ UNCHANGED <<program, started, running, errors, patchVars>>

\* setTimeout(() => send(Click), ..): the oldest pending timer fires
TimerFires ==
    /\ loop.timers # <<>>
    /\ lastCall' = [op |-> "timer", message |-> Head(loop.timers),
                    pending |-> Len(loop.timers) - 1]
    /\ loop' = enter(program, Head(loop.timers),
                     [loop EXCEPT !.timers = Tail(@), !.dom.log = <<>>])
    /\ UNCHANGED <<program, started, running, calls, errors, patchVars>>

Next == RunProgram \/ RunProgramWithHydration \/ Send \/ FireEvent
        \/ TimerFires

Spec == Init /\ [][Next]_vars

\* What tells a step of TimerFires from every other step: it is enabled
\* when TimerFires is and every step of it changes lastCall.
TimerDue ==
    /\ loop.timers # <<>>
    /\ lastCall' = [op |-> "timer", message |-> Head(loop.timers),
                    pending |-> Len(loop.timers) - 1]

\* The host fires every pending timer: a callback passed to setTimeout is
\* called once its delay has passed, and the program never clears one.
SpecFair == Init /\ [][Next]_vars /\ WF_lastCall(TimerDue)

(***************************************************************************)
(* Properties of the reconciler                                            *)
(***************************************************************************)
\* The structure of a live tree: kind, tag, children in order, text.
RECURSIVE Shape(_)
Shape(tree) ==
    IF tree.kind = "Text" THEN [kind |-> "Text", data |-> tree.data]
    ELSE [kind |-> tree.kind, tag |-> tree.tag,
          childNodes |-> [i \in 1..Len(tree.childNodes) |->
                            Shape(tree.childNodes[i])]]

RECURSIVE NumElements(_)
RECURSIVE SumElements(_, _)
NumElements(html) ==
    IF html.kind = "Text" THEN 0 ELSE 1 + SumElements(html.children, 1)
SumElements(children, i) ==
    IF i > Len(children) THEN 0
    ELSE NumElements(children[i]) + SumElements(children, i + 1)

PatchCalls == SelectSeq(pDom.log, LAMBDA e : e.op = "patch")

Live == pParent.childNodes[1]

SameTagElements ==
    /\ pPrevious.kind = "Node"
    /\ pNext.kind = "Node"
    /\ pPrevious.tag = pNext.tag

\* C1: after patch(P, N, buildTree(P)) the node standing at the built
\* tree's position under its parent has the structure of buildTree(N).
C1_PatchConverges ==
    pStage = "patched" =>
        /\ ~pDom.threw
        /\ Len(pParent.childNodes) = 1
        /\ Shape(Live) = Shape(buildTree(Bare(pNext), NoDom).tree)

C1_Witness ==
    /\ pStage = "patched"
    /\ pStatus.patched >= 2
    /\ pStatus.replaced >= 1
    /\ pStatus.removed >= 1

\* C2: patch(A, A, buildTree(A)) reports patched = the number of Elements
\* of A, replaced = added = removed = 0, and leaves the structure of the
\* tree as buildTree(A) made it.
C2_IdempotentPatch ==
    (\/ pStage = "patchedSame"
     \/ pStage = "patched" /\ Bare(pPrevious) = Bare(pNext)) =>
        /\ pStatus = [replaced |-> 0, patched |-> NumElements(pNext),
                      removed |-> 0, added |-> 0]
        /\ Shape(Live) = Shape(pBuilt)

C2_Witness ==
    /\ pStage = "patchedSame"
    /\ pStatus.patched >= 2
    /\ \E i \in 1..Len(pNext.children) : pNext.children[i].kind = "Text"

\* C3: when previous.kind # next.kind, patch returns exactly replaced 1,
\* makes no recursive patch call, and the node standing at the live node's
\* position has the kind of next.
C3_KindChange ==
    (pStage = "patched" /\ pPrevious.kind # pNext.kind) =>
        /\ pStatus = [replaced |-> 1, patched |-> 0, removed |-> 0,
                      added |-> 0]
        /\ Len(PatchCalls) = 1
        /\ Live.kind = (IF pNext.kind = "Node" THEN "Element" ELSE "Text")

C3_Witness ==
    /\ pStage = "patched"
    /\ pPrevious.kind = "Text"
    /\ pNext.kind = "Node"
    /\ Len(pNext.children) >= 2
    /\ Live.kind = "Element"

\* String attributes with distinct keys that go through
\* element.setAttribute on this tag.
Plain(html) ==
    /\ distinctKeys(html.attributes)
    /\ \A i \in 1..Len(html.attributes) :
          /\ html.attributes[i].kind = "StringAttribute"
          /\ html.attributes[i].key # "class"
          /\ ~isProperty(tagName(html), html.attributes[i].key)

Called(op, nodeId, key) ==
    \E i \in 1..Len(pDom.log) :
        /\ pDom.log[i].op = op
        /\ pDom.log[i].node = nodeId
        /\ pDom.log[i].key = key

\* C4: patching two Elements of one tag with plain string attributes leaves
\* exactly next's attributes on the live element; a key in both with the
\* same value is not written, a key only in next is written, a key only in
\* previous is removed.
C4_AttributeConvergence ==
    (pStage = "patched" /\ SameTagElements /\ Plain(pPrevious)
                       /\ Plain(pNext)) =>
        LET P == Range(pPrevious.attributes)
            N == Range(pNext.attributes)
        IN /\ Live.attrs = {[key |-> a.key, value |-> a.value] : a \in N}
           /\ \A n \in N :
                 IF \E p \in P : p.key = n.key
                 THEN (\E p \in P : p.key = n.key /\ p.value = n.value)
                        => ~Called("setAttribute", Live.id, n.key)
                 ELSE Called("setAttribute", Live.id, n.key)
           /\ \A p \in P :
                 (\A n \in N : n.key # p.key)
                    => /\ Called("removeAttribute", Live.id, p.key)
                       /\ ~hasAttribute(Live, p.key)

C4_Witness ==
    /\ pStage = "patched"
    /\ SameTagElements
    /\ Bare(pPrevious).attributes
         = <<StringAttribute("a", "1"), StringAttribute("b", "2")>>
    /\ pNext.attributes
         = <<StringAttribute("b", "2"), StringAttribute("c", "3")>>
    /\ Live.attrs = {[key |-> "b", value |-> "2"],
                     [key |-> "c", value |-> "3"]}
    /\ ~Called("setAttribute", Live.id, "b")

\* previous children [X, Y, Z] and next children [Y, Z] on one tag
DroppedFirst ==
    /\ SameTagElements
    /\ Len(pPrevious.children) = 3
    /\ Len(pNext.children) = 2
    /\ Bare(pNext).children = Tail(Bare(pPrevious).children)

\* C5: with previous children [X, Y, Z] and next children [Y, Z], patch
\* recurses on (X, Y, live child 0) and (Y, Z, live child 1), then removes
\* live child 2: removed is 1 and the live element ends with 2 children.
C5_PositionalMatching ==
    (pStage = "patched" /\ DroppedFirst) =>
        LET X == Bare(pPrevious).children[1]
            Y == Bare(pPrevious).children[2]
            Z == Bare(pPrevious).children[3]
        IN /\ Len(PatchCalls) = 3
           /\ PatchCalls[2] = [op |-> "patch", previous |-> X, next |-> Y,
                               node |-> pBuilt.childNodes[1].id]
           /\ PatchCalls[3] = [op |-> "patch", previous |-> Y, next |-> Z,
                               node |-> pBuilt.childNodes[2].id]
           /\ pDom.log[Len(pDom.log)]
                = [op |-> "removeChild", node |-> Live.id,
                   key |-> pBuilt.childNodes[3].id]
           /\ pStatus.removed = 1
           /\ Len(Live.childNodes) = 2

C5_Witness ==
    /\ pStage = "patched"
    /\ DroppedFirst
    /\ Bare(pPrevious).children[1] # Bare(pPrevious).children[2]
    /\ Bare(pPrevious).children[2] # Bare(pPrevious).children[3]
    /\ Len(Live.childNodes) = 2

(***************************************************************************)
(* Properties of the dispatch loop                                         *)
(***************************************************************************)
\* The trace of the last step.
Log == loop.dom.log

\* The host reported an exception in the last step.
Uncaught == \E i \in 1..Len(Log) : Log[i].op = "uncaught"

\* The calls of patch of the last step on the node `id`.
PatchesOn(id) == SelectSeq(Log, LAMBDA e : e.op = "patch" /\ e.node = id)

\* Those between two Nodes of one tag with the same event descriptors.
SameEventsPatches(id) ==
    SelectSeq(PatchesOn(id),
              LAMBDA e : /\ e.previous.kind = "Node"
                         /\ e.next.kind = "Node"
                         /\ e.previous.tag = e.next.tag
                         /\ e.previous.events = e.next.events)

\* The number of addEventListener calls of the last step on the node `id`.
Registrations(id) ==
    Len(SelectSeq(Log, LAMBDA e : e.op = "addEventListener" /\ e.node = id))

\* The mounted node `id`.
MountedNode(id) == CHOOSE n \in Mounted(loop.root) : n.id = id

IsMounted(id) == \E n \in Mounted(loop.root) : n.id = id

\* C6: when a native event has fired the one-shot listeners of a mounted
\* element and every patch of that element in the cycles it started was
\* against an AST of the same tag with the same event descriptors, each
\* such patch registered one listener per descriptor, and the element now
\* carries, for every descriptor, a listener that is not one of those that
\* fired.
C6_ListenerReArm ==
    lastCall.op = "event" =>
        LET id == lastCall.target
            same == SameEventsPatches(id)
            fired == {l.listener : l \in Range(lastCall.listeners)}
        IN (same # <<>> /\ Len(same) = Len(PatchesOn(id))) =>
              /\ Registrations(id) = Len(same) * Len(same[1].next.events)
              /\ IsMounted(id)
              /\ \A k \in 1..Len(same[1].next.events) :
                    \E l \in Range(MountedNode(id).listeners) :
                       /\ l.event = same[1].next.events[k]
                       /\ l.listener \notin fired

\* A click on a button of the name collector was followed by a patch of
\* that button against the same descriptor, and the button listens again.
C6_Witness ==
    /\ lastCall.op = "event"
    /\ lastCall.name = "click"
    /\ Len(lastCall.listeners) = 1
    /\ SameEventsPatches(lastCall.target) # <<>>
    /\ Len(SameEventsPatches(lastCall.target)[1].next.events) = 1
    /\ Registrations(lastCall.target) = 1
    /\ IsMounted(lastCall.target)
    /\ Len(MountedNode(lastCall.target).listeners) = 1
    /\ calls >= 2

\* C7: no dispatch cycle begins while another is in progress: between the
\* beginnings of two cycles of one step the earlier cycle has returned or
\* has ended in an exception.
C7_NoOverlap ==
    \A i, j \in 1..Len(Log) :
        (i < j /\ Log[i].op = "listener" /\ Log[j].op = "listener") =>
            \E k \in (i + 1)..(j - 1) : Log[k].op \in {"return", "uncaught"}

\* The AST stored by the last cycle that completed before entry i of the
\* trace, or the one stored when the step began.
StoredBefore(i) ==
    LET stores == SelectSeq(SubSeq(Log, 1, i - 1), LAMBDA e : e.op = "store")
    IN IF stores = <<>> THEN Log[1].previous
       ELSE stores[Len(stores)].next

\* C8: in a program started by runProgram every cycle calls view on the
\* model update returned and then patch with the stored previous AST and
\* that view, and between cycles the stored previous AST is the view of
\* the stored model.
C8_CycleOrder ==
    (started = "runProgram" /\ running.send = "listener") =>
        /\ Bare(loop.previousView)
              = programView(program, loop.currentModel)
        /\ \A i \in 1..Len(Log) :
              Log[i].op = "view" =>
                 /\ Log[i - 1].op = "update"
                 /\ Log[i].next = programView(program, Log[i - 1].model)
                 /\ Log[i + 1].op = "patch"
                 /\ Log[i + 1].next = Log[i].next
                 /\ Log[i + 1].previous = StoredBefore(i)

\* C9: without a mount point either entry point reports the condition
\* once, builds and hydrates nothing, and returns a send that does nothing
\* and the initial model: no call of send calls update, view or patch, and
\* the model stays the initial model.
C9_MissingRoot ==
    (~loop.root.exists /\ started # "no") =>
        /\ errors = 1
        /\ running = [send |-> "noop",
                      model |-> programInitialModel(program)]
        /\ loop.currentModel = programInitialModel(program)
        /\ loop.currentTree = Null
        /\ loop.root.childNodes = <<>>
        /\ Log = <<>>
        /\ lastCall.op \in {"runProgram", "runProgramWithHydration", "send"}

\* send has been called twice on a program started without a mount point.
C9_Witness ==
    /\ ~loop.root.exists
    /\ started # "no"
    /\ running.send = "noop"
    /\ lastCall.op = "send"
    /\ calls >= 2

\* C10: while the loop holds no live tree a dispatch calls neither update
\* nor view nor patch.
C10_DispatchGuard ==
    (/\ started # "no"
     /\ loop.currentTree.kind \in {"null", "undefined"}
     /\ lastCall.op \in {"send", "event", "timer"}) =>
        \A i \in 1..Len(Log) :
            Log[i].op \notin {"listener", "update", "view", "patch"}

\* C11: the model field of the RunningProgram returned is the model the
\* dispatch loop holds, after any sequence of dispatches.
C11_ModelTracks ==
    running.send = "listener" => running.model = loop.currentModel

\* The last step ran a cycle of the name collector for a message of this
\* kind, entered with no name collected yet.
EnteredEmptyWith(kind) ==
    /\ program = "names"
    /\ Log # <<>>
    /\ Log[1].op = "listener"
    /\ Log[1].message.kind = kind
    /\ Log[1].model.names = <<>>
    /\ Log[1].model.checkedNames = <<>>

\* C12: from the initial model SetCurrentName(n) leaves n as the current
\* name and nothing else, and Click on that model yields the model with no
\* current name, names = [n] and checkedNames = [n]; the name list of its
\* view has one entry, for n, whose checkbox has checked = true.
C12_EnterOneName ==
    /\ (EnteredEmptyWith("SetCurrentName") /\ Log[1].model = initialModel) =>
          loop.currentModel
            = [currentName |-> Log[1].message.value, names |-> <<>>,
               checkedNames |-> <<>>]
    /\ EnteredEmptyWith("Click") =>
          LET n == Log[1].model.currentName
              list == viewNames(loop.currentModel).children
          IN /\ loop.currentModel
                  = [currentName |-> "", names |-> <<n>>,
                     checkedNames |-> <<n>>]
             /\ Len(list) = 2
             /\ list[1].children[2] = text(n)
             /\ list[1].children[1].tag = "input"
             /\ BooleanAttribute("checked", TRUE)
                   \in Range(list[1].children[1].attributes)
             /\ BooleanAttribute("checked", FALSE)
                   \notin Range(list[1].children[1].attributes)
             /\ list[2] = div(<<text("Checked names: " \o n)>>, <<>>, <<>>)

\* The user typed Ada and clicked Add on the empty name collector.
C12_Witness ==
    /\ EnteredEmptyWith("Click")
    /\ Log[1].model.currentName = "Ada"
    /\ lastCall.op = "event"
    /\ loop.currentModel.names = <<"Ada">>
    /\ loop.currentModel.checkedNames = <<"Ada">>

\* A live tree without its listeners: node identities, structure,
\* attributes, classes, properties and text.
RECURSIVE Unlistened(_)
Unlistened(tree) ==
    [tree EXCEPT !.listeners = <<>>,
                 !.childNodes = [i \in 1..Len(@) |-> Unlistened(@[i])]]

\* C13: hydrate leaves every node of the existing tree where it was, with
\* its attributes, classes, properties and text, whether or not the tree
\* matches the AST: the only DOM calls it makes are addEventListener; for
\* a Text AST it makes none.
C13_HydrateKeepsStructure ==
    pStage = "hydrated" =>
        /\ ~pDom.threw
        /\ Unlistened(Live) = Unlistened(pBuilt)
        /\ \A i \in 1..Len(pDom.log) : pDom.log[i].op = "addEventListener"
        /\ pNext.kind = "Text" => (Live = pBuilt /\ pDom.log = <<>>)

\* An AST with a listening child was hydrated on a tree of another shape:
\* the tree lacks the child, or has a text node in its place.
C13_Witness ==
    /\ pStage = "hydrated"
    /\ pNext.kind = "Node"
    /\ Shape(Live) # Shape(buildTree(Bare(pNext), NoDom).tree)
    /\ \E i \in 1..Len(pNext.children) :
          /\ pNext.children[i].kind = "Node"
          /\ pNext.children[i].events # <<>>
    /\ pDom.log # <<>>

\* The live tree has a node of the AST's kind and tag at every position of
\* the AST, and no other node.
RECURSIVE Matches(_, _)
Matches(html, tree) ==
    IF html.kind = "Text" THEN tree.kind = "Text"
    ELSE /\ tree.kind = "Element"
         /\ tree.tag = html.tag
         /\ Len(tree.childNodes) = Len(html.children)
         /\ \A i \in 1..Len(html.children) :
               Matches(html.children[i], tree.childNodes[i])

\* Every element carries one listener per event descriptor of its AST
\* node, in order and each a closure of its own, the AST node records
\* exactly those pairs, and no text node carries a listener.
RECURSIVE Wired(_, _)
Wired(html, tree) ==
    IF html.kind = "Text"
    THEN tree.kind = "Text" /\ tree.listeners = <<>>
    ELSE /\ tree.kind = "Element"
         /\ [i \in 1..Len(tree.listeners) |-> tree.listeners[i].event]
               = html.events
         /\ [i \in 1..Len(tree.listeners) |->
                [event |-> tree.listeners[i].event,
                 listener |-> tree.listeners[i].listener]]
               = html._eventListeners
         /\ \A i, j \in 1..Len(tree.listeners) :
               tree.listeners[i].listener = tree.listeners[j].listener
                  => i = j
         /\ Len(tree.childNodes) = Len(html.children)
         /\ \A i \in 1..Len(html.children) :
               Wired(html.children[i], tree.childNodes[i])

\* The listeners recorded on an AST and on its descendants.
RECURSIVE Registered(_)
Registered(html) ==
    IF html.kind = "Text" THEN {}
    ELSE {r.listener : r \in Range(html._eventListeners)}
         \cup UNION {Registered(html.children[i]) :
                       i \in 1..Len(html.children)}

\* The listeners attached to a live tree.
RECURSIVE Attached(_)
Attached(tree) ==
    {l.listener : l \in Range(tree.listeners)}
    \cup UNION {Attached(tree.childNodes[i]) :
                  i \in 1..Len(tree.childNodes)}

\* C14: after hydrate on a tree that matches the AST position for
\* position every element carries one listener per event descriptor of
\* its AST node and the AST node records each pair; a child of the AST
\* with no live node at its index is skipped, nothing being registered for
\* it; and the first patch after hydration leaves none of the listeners
\* hydrate attached on the tree, which is wired to the next AST without
\* duplicates.
C14_HydrationWiring ==
    /\ (pStage = "hydrated" /\ Matches(pNext, pBuilt)) => Wired(pNext, Live)
    /\ (pStage = "hydrated" /\ pNext.kind = "Node") =>
          /\ ~pDom.threw
          /\ \A i \in 1..Len(pNext.children) :
                i > Len(pBuilt.childNodes) =>
                    /\ Registered(pNext.children[i]) = {}
                    /\ Len(Live.childNodes) = Len(pBuilt.childNodes)
    /\ (pStage = "patchedHydrated" /\ Matches(pNext, pBuilt)) =>
          /\ ~pDom.threw
          /\ Attached(Live) \cap Registered(pNext) = {}
          /\ Wired(pPrevious, Live)

\* A div with a listening button was hydrated on a matching tree and then
\* patched in place against an AST that keeps the button.
C14_Witness ==
    /\ pStage = "patchedHydrated"
    /\ Matches(pNext, pBuilt)
    /\ Registered(pNext) # {}
    /\ pNext.kind = "Node"
    /\ \E i \in 1..Len(pNext.children) :
          /\ pNext.children[i].kind = "Node"
          /\ pNext.children[i].events # <<>>
          /\ i <= Len(pPrevious.children)
          /\ Bare(pPrevious.children[i]) = Bare(pNext.children[i])
    /\ Live.id = pBuilt.id
    /\ Attached(Live) # {}

\* Every element of the live tree carries as many listeners as its AST
\* node, the node at the same position of the AST, has event descriptors.
RECURSIVE ListenerCounts(_, _)
ListenerCounts(html, tree) ==
    IF html.kind = "Text" \/ tree.kind # "Element" THEN TRUE
    ELSE /\ Len(tree.listeners) = Len(html.events)
         /\ \A i \in 1..Len(html.children) :
               i <= Len(tree.childNodes) =>
                   ListenerCounts(html.children[i], tree.childNodes[i])

\* C15: after any number of dispatch cycles every element mounted under
\* the root carries as many listeners as its current AST node, the node at
\* its position in view(current model), has event descriptors: patch left
\* no listener of the previous AST on it and attached one per descriptor
\* of the next.
C15_NoStaleListener ==
    (running.send = "listener" /\ loop.root.childNodes # <<>>) =>
        ListenerCounts(programView(program, loop.currentModel),
                       loop.root.childNodes[1])

\* A step whose cycle processed ClickWithDelay: the model is the one the
\* loop held and one callback dispatching Click has joined the timers.
DelayScheduled ==
    (/\ Log' # <<>>
     /\ Log'[1].op = "listener"
     /\ Log'[1].message = ClickWithDelay) =>
        /\ loop'.currentModel = loop.currentModel
        /\ loop'.timers = Append(loop.timers, Click)

\* A step in which a timer of the name collector fired: Click went through
\* the whole cycle, applied to the model the loop held when it fired.
DelayedClickRuns ==
    (lastCall'.op = "timer" /\ program = "names") =>
        /\ lastCall'.message = Head(loop.timers)
        /\ loop'.timers = Tail(loop.timers)
        /\ Log'[1] = [op |-> "listener", message |-> Click,
                      model |-> loop.currentModel,
                      previous |-> Bare(loop.previousView)]
        /\ Log'[2] = [op |-> "update", message |-> Click,
                      model |-> update(Click, loop.currentModel).model]
        /\ Log'[3].op = "view"
        /\ Log'[4].op = "patch"
        /\ Log'[Len(Log') - 1].op = "store"
        /\ Log'[Len(Log')].op = "return"
        /\ loop'.currentModel.names
              = Append(loop.currentModel.names, loop.currentModel.currentName)
        /\ loop'.currentModel.currentName = ""
        /\ Bare(loop'.previousView) = view(loop'.currentModel)

\* A timer leaves the queue only by firing.
NeverCancelled ==
    Len(loop'.timers) < Len(loop.timers) => lastCall'.op = "timer"

\* C16: processing ClickWithDelay leaves the model as it was and sets one
\* timer for Click; when the timer fires, Click runs the whole dispatch
\* sequence on the model current at that time; no timer is cancelled, and
\* with the host firing its timers every one set is eventually processed.
C16_DelayedDispatch ==
    /\ [][DelayScheduled /\ DelayedClickRuns /\ NeverCancelled]_vars
    /\ <>[](loop.timers = <<>>)

\* The delayed Click fired after the user had typed Ada, and committed it.
C16_Witness ==
    /\ program = "names"
    /\ lastCall.op = "timer"
    /\ loop.currentModel.names = <<"Ada">>
    /\ loop.currentModel.currentName = ""
    /\ loop.timers = <<>>

\* What a live tree describes: per element its tag, its attributes (class
\* among them) and its children in order, per text node its characters;
\* text nodes side by side count as one run of characters and an empty
\* text node as none.
RECURSIVE Described(_)
RECURSIVE DescribedChildren(_, _, _)
Described(tree) ==
    IF tree.kind = "Text" THEN [text |-> tree.data]
    ELSE [tag |-> tree.tag,
          attributes |-> tree.attrs
                \cup (IF tree.classList = <<>> THEN {}
                      ELSE {[key |-> "class", value |-> tree.classList]}),
          children |-> DescribedChildren(tree.childNodes, 1, <<>>)]

DescribedChildren(childNodes, i, acc) ==
    IF i > Len(childNodes) THEN acc
    ELSE IF childNodes[i].kind = "Text" /\ childNodes[i].data = ""
    THEN DescribedChildren(childNodes, i + 1, acc)
    ELSE IF /\ childNodes[i].kind = "Text"
            /\ acc # <<>>
            /\ acc[Len(acc)] \in [text : STRING]
    THEN DescribedChildren(childNodes, i + 1,
            [acc EXCEPT ![Len(acc)].text = @ \o childNodes[i].data])
    ELSE DescribedChildren(childNodes, i + 1,
                           Append(acc, Described(childNodes[i])))

RECURSIVE NoEvents(_)
NoEvents(html) ==
    html.kind = "Text"
    \/ /\ html.events = <<>>
       /\ \A i \in 1..Len(html.children) : NoEvents(html.children[i])

\* C17: for an AST without events the tree parsed from renderAsString(A)
\* and the tree buildTree(A) makes describe the same structure: the same
\* nesting of tags, the same text in the same order, and on each element
\* the same attributes.
C17_BuildRenderEquivalence ==
    (pStage = "rendered" /\ NoEvents(pPrevious)) =>
        /\ Len(pParent.childNodes) = 1
        /\ Described(pBuilt)
              = Described(buildTree(pPrevious, NoDom).tree)

(***************************************************************************)
(* The removal loop of patch (final runtime)                               *)
(***************************************************************************)
\* The number of children the built element has beyond the next view's.
Excess ==
    IF Len(pBuilt.childNodes) > Len(pNext.children)
    THEN Len(pBuilt.childNodes) - Len(pNext.children)
    ELSE 0

\* The removeChild calls of the last step, and those on the patched element.
Removals == SelectSeq(pDom.log, LAMBDA e : e.op = "removeChild")

RemovedHere == SelectSeq(Removals, LAMBDA e : e.node = Live.id)

\* C18: after patch on two Elements of the same tag the live element has
\* exactly as many children as the next view; the children it had beyond
\* that count were removed one by one from the last index downwards, and
\* the status counts one removal for each removeChild, so the removals
\* counted at the patched element are the excess children.
C18_TrailingExcessRemoved ==
    (pStage = "patched" /\ SameTagElements) =>
        /\ Len(Live.childNodes) = Len(pNext.children)
        /\ Len(RemovedHere) = Excess
        /\ \A k \in 1..Excess :
               RemovedHere[k].key
                   = pBuilt.childNodes[Len(pBuilt.childNodes) + 1 - k].id
        /\ pStatus.removed = Len(Removals)

C18_Witness ==
    /\ pStage = "patched"
    /\ SameTagElements
    /\ Excess >= 2
    /\ Len(RemovedHere) = Excess
    /\ Len(Live.childNodes) = Len(pNext.children)

(***************************************************************************)
(* The removal loop of patch (src/src/index.ts)                            *)
(***************************************************************************)
\* C19: after the patch of src/src/index.ts on two Elements of the same tag
\* where the live element has more children than the next view, the live
\* element has exactly as many children as the next view and the removals
\* counted at the patched element are the excess children.
C19_IndexTsExcessRemoved ==
    (pStage = "patchedIndexTs" /\ SameTagElements /\ Excess > 0) =>
        /\ Len(Live.childNodes) = Len(pNext.children)
        /\ Len(RemovedHere) = Excess
        /\ pStatus.removed = Len(Removals)

(***************************************************************************)
(* buildTree                                                               *)
(***************************************************************************)
RECURSIVE NumNodes(_)
RECURSIVE SumNodes(_, _)
\* The number of nodes of an AST.
NumNodes(html) ==
    IF html.kind = "Text" THEN 1 ELSE 1 + SumNodes(html.children, 1)
SumNodes(children, i) ==
    IF i > Len(children) THEN 0
    ELSE NumNodes(children[i]) + SumNodes(children, i + 1)

\* The document.create* calls of the last step.
Creations ==
    SelectSeq(pDom.log,
              LAMBDA e : e.op \in {"createElement", "createTextNode"})

\* The position in the trace of the DOM call `op` on `node` with `key`.
At(log, op, id, key) ==
    CHOOSE i \in 1..Len(log) :
        log[i].op = op /\ log[i].node = id /\ log[i].key = key

\* The DOM call that applies the attribute to the element.
Applied(tree, attr) ==
    [op |-> IF attr.key = "class" THEN "classList"
            ELSE IF isProperty(tagName(tree), attr.key) THEN "setProperty"
            ELSE "setAttribute",
     node |-> tree.id, key |-> attr.key]

\* The calls buildTree makes on the element it creates, in order: create,
\* one addEventListener per descriptor, one appendChild per child, one
\* call per attribute.
OwnCalls(tree, html) ==
    <<[op |-> "createElement", node |-> tree.id, key |-> html.tag]>>
    \o [i \in 1..Len(html.events) |->
            [op |-> "addEventListener", node |-> tree.id,
             key |-> html.events[i].name]]
    \o [i \in 1..Len(html.children) |->
            [op |-> "appendChild", node |-> tree.id,
             key |-> tree.childNodes[i].id]]
    \o [i \in 1..Len(html.attributes) |-> Applied(tree, html.attributes[i])]

\* tree is what buildTree made of html, html carrying the listeners
\* recorded, and log is the trace of the calls made.
RECURSIVE BuiltAs(_, _, _)
BuiltAs(tree, html, log) ==
    IF html.kind = "Text"
    THEN /\ tree.kind = "Text"
         /\ tree.data = html.content
         /\ tree.listeners = <<>>
         /\ SelectSeq(log, LAMBDA e : e.node = tree.id)
              = <<[op |-> "createTextNode", node |-> tree.id,
                   key |-> html.content]>>
    ELSE /\ tree.kind = "Element"
         /\ tree.tag = html.tag
         /\ SelectSeq(log, LAMBDA e : e.node = tree.id) = OwnCalls(tree, html)
         /\ tree.listeners
              = [i \in 1..Len(html.events) |->
                    [name |-> html.events[i].name,
                     listener |-> tree.listeners[i].listener,
                     event |-> html.events[i]]]
         /\ \A i, j \in 1..Len(tree.listeners) :
                tree.listeners[i].listener = tree.listeners[j].listener
                    => i = j
         /\ html._eventListeners
              = [i \in 1..Len(html.events) |->
                    [event |-> html.events[i],
                     listener |-> tree.listeners[i].listener]]
         /\ Len(tree.childNodes) = Len(html.children)
         /\ \A i \in 1..Len(html.children) :
               /\ BuiltAs(tree.childNodes[i], html.children[i], log)
               /\ At(log, IF html.children[i].kind = "Text"
                          THEN "createTextNode" ELSE "createElement",
                     tree.childNodes[i].id,
                     IF html.children[i].kind = "Text"
                     THEN html.children[i].content
                     ELSE html.children[i].tag)
                    < At(log, "appendChild", tree.id, tree.childNodes[i].id)
         /\ \A i \in 1..Len(html.attributes) :
               IF html.attributes[i].key = "class"
               THEN tree.classList = split(html.attributes[i].value)
               ELSE IF isProperty(tagName(tree), html.attributes[i].key)
               THEN [key |-> html.attributes[i].key,
                     kind |-> html.attributes[i].kind,
                     value |-> html.attributes[i].value] \in tree.props
               ELSE [key |-> html.attributes[i].key,
                     value |-> html.attributes[i].value] \in tree.attrs

\* C20: buildTree creates exactly one live node per AST node.  On an
\* Element it registers one listener per event descriptor, in descriptor
\* order, and records each (descriptor, listener) pair on the AST node;
\* then it appends the built children in AST order; then it applies every
\* attribute.  A Text node yields a text node with the AST's content and no
\* listener.
C20_BuildTree ==
    pStage = "built" =>
        /\ ~pDom.threw
        /\ Len(Creations) = NumNodes(pPrevious)
        /\ BuiltAs(pBuilt, pPrevious, pDom.log)

C20_Witness ==
    /\ pStage = "built"
    /\ pPrevious.kind = "Node"
    /\ Len(pPrevious.events) = 2
    /\ Len(pPrevious.children) = 2
    /\ Len(pPrevious.attributes) = 2
    /\ Len(pBuilt.listeners) = 2
    /\ Len(pBuilt.childNodes) = 2
    /\ Len(Creations) = 4

(***************************************************************************)
(* One-shot listeners                                                      *)
(***************************************************************************)
\* The listeners registered on the nodes the program or the user can reach.
Listeners(st) ==
    UNION {{l.listener : l \in Range(n.listeners)} : n \in Reachable(st)}

\* The listeners a native event found on its target have all left it.
FiredAreGone ==
    lastCall.op = "event" =>
        \A l \in Range(lastCall.listeners) : l.listener \notin Listeners(loop)

\* A listener that was created and is registered nowhere is not registered
\* again.
GoneStaysGone ==
    \A lid \in 1..(loop.dom.nid - 1) :
        lid \notin Listeners(loop) => lid \notin Listeners(loop')

\* C21: a native listener made by buildTree, patchEvents or hydrate
\* dispatches at most once.  After the native event that called it, and
\* after a patch of its element removed it, it is registered on no node,
\* and a listener that is registered nowhere never comes back, so no later
\* event of the same name finds it.
C21_AtMostOnce == []FiredAreGone /\ [][GoneStaysGone]_vars

\* A second native event has dispatched from a node that still listens.
C21_Witness ==
    /\ lastCall.op = "event"
    /\ calls >= 2
    /\ \E i \in 1..Len(Log) : Log[i].op = "listener"
    /\ IsMounted(lastCall.target)
    /\ MountedNode(lastCall.target).listeners # <<>>
    /\ FiredAreGone

(***************************************************************************)
(* The cases of patch                                                      *)
(***************************************************************************)
BothText == pPrevious.kind = "Text" /\ pNext.kind = "Text"

\* The DOM calls of the last step: the trace without the calls of patch.
DomCalls == SelectSeq(pDom.log, LAMBDA e : e.op # "patch")

\* C22: patch of a Text against a Text of equal content returns the
\* all-zero status, makes no DOM call and leaves the live text node as it
\* was; with different content the live node is replaced by a text node
\* created in this patch that holds the content of next, and the status is
\* replaced 1, patched 0, added 0, removed 0.
C22_TextAgainstText ==
    (pStage \in {"patched", "patchedSame"} /\ BothText) =>
        IF pPrevious.content = pNext.content
        THEN /\ pStatus = [replaced |-> 0, patched |-> 0, removed |-> 0,
                           added |-> 0]
             /\ DomCalls = <<>>
             /\ Live = pBuilt
        ELSE /\ pStatus = [replaced |-> 1, patched |-> 0, removed |-> 0,
                           added |-> 0]
             /\ Len(DomCalls) = 2
             /\ DomCalls[1].op = "createTextNode"
             /\ DomCalls[1].node = Live.id
             /\ DomCalls[2].op = "replaceWith"
             /\ DomCalls[2].node = pBuilt.id
             /\ DomCalls[2].key = Live.id
             /\ Live = createTextNode(pNext.content, Live.id)
             /\ Live.id # pBuilt.id
             /\ Len(pParent.childNodes) = 1

C22_Witness ==
    /\ pStage = "patched"
    /\ BothText
    /\ pPrevious.content # pNext.content
    /\ pStatus.replaced = 1
    /\ Live.kind = "Text"
    /\ Live.data = pNext.content
    /\ Live.id # pBuilt.id

TagChange ==
    /\ pPrevious.kind = "Node"
    /\ pNext.kind = "Node"
    /\ pPrevious.tag # pNext.tag

\* The identities of the nodes of a tree.
Ids(tree) == {n.id : n \in Nodes(tree)}

\* C23: patch of an Element against an Element of another tag replaces the
\* live element by a fresh build of next and returns replaced 1 and the
\* other counters 0.  The old element is not reused or changed: the one DOM
\* call on it or on a node under it is the replaceWith, no child of it is
\* patched, and the tree in its place is made of new nodes only.
C23_TagChange ==
    (pStage = "patched" /\ TagChange) =>
        /\ pStatus = [replaced |-> 1, patched |-> 0, removed |-> 0,
                      added |-> 0]
        /\ Len(PatchCalls) = 1
        /\ SelectSeq(DomCalls, LAMBDA e : e.node \in Ids(pBuilt))
             = <<[op |-> "replaceWith", node |-> pBuilt.id,
                  key |-> Live.id]>>
        /\ Ids(Live) \cap Ids(pBuilt) = {}
        /\ Len(pParent.childNodes) = 1
        /\ Live = buildTree(Bare(pNext),
                            [nid |-> Live.id, log |-> <<>>,
                             threw |-> FALSE]).tree

\* A listening element with a tag other than that of the built element,
\* which listened too, has taken its place.
C23_Witness ==
    /\ pStage = "patched"
    /\ TagChange
    /\ pPrevious.events # <<>>
    /\ pNext.events # <<>>
    /\ Live.tag = pNext.tag
    /\ Len(Live.listeners) = Len(pNext.events)
    /\ pStatus.replaced = 1

\* The smaller of two numbers.
Min(a, b) == IF a < b THEN a ELSE b

\* The live node and every live descendant matched, position by position,
\* through Elements of one tag or Text of equal content is the node that
\* was there before the patch.
RECURSIVE KeepsIdentity(_, _, _, _)
KeepsIdentity(previousView, nextView, before, after) ==
    IF /\ previousView.kind = "Text"
       /\ nextView.kind = "Text"
       /\ previousView.content = nextView.content
    THEN after = before
    ELSE IF /\ previousView.kind = "Node"
            /\ nextView.kind = "Node"
            /\ previousView.tag = nextView.tag
    THEN /\ after.id = before.id
         /\ after.kind = "Element"
         /\ after.tag = before.tag
         /\ \A i \in 1..Min(Len(previousView.children),
                            Len(nextView.children)) :
               KeepsIdentity(previousView.children[i], nextView.children[i],
                             before.childNodes[i], after.childNodes[i])
    ELSE TRUE

\* The nodes that replaceWith was called on in the last step.
Replaced ==
    {e.node : e \in Range(SelectSeq(pDom.log,
                                    LAMBDA e : e.op = "replaceWith"))}

\* C24: patch of two Elements of one tag never replaces the live element:
\* the node at its position is the same node afterwards, and so is every
\* live descendant reached through matches of same-tag Elements or of Text
\* of equal content.
C24_InPlace ==
    (pStage \in {"patched", "patchedSame"} /\ SameTagElements) =>
        /\ Live.id = pBuilt.id
        /\ pBuilt.id \notin Replaced
        /\ Len(pParent.childNodes) = 1
        /\ KeepsIdentity(pPrevious, pNext, pBuilt, Live)

\* A child element was patched in place, with a text of its own kept,
\* while another node of the tree was replaced.
C24_Witness ==
    /\ pStage = "patched"
    /\ SameTagElements
    /\ Len(pNext.children) = 2
    /\ Len(pPrevious.children) = 2
    /\ pPrevious.children[1].kind = "Node"
    /\ pNext.children[1].kind = "Node"
    /\ pPrevious.children[1].tag = pNext.children[1].tag
    /\ Live.childNodes[1].id = pBuilt.childNodes[1].id
    /\ Live.childNodes[1].childNodes[1] = pBuilt.childNodes[1].childNodes[1]
    /\ Replaced # {}

\* The children next has beyond those of previous.
Missing ==
    IF Len(pNext.children) > Len(pPrevious.children)
    THEN Len(pNext.children) - Len(pPrevious.children)
    ELSE 0

\* The appendChild calls of the last step on nodes that stood before it:
\* those patch made itself, outside the subtrees it had built.
Appends ==
    SelectSeq(pDom.log,
              LAMBDA e : e.op = "appendChild" /\ e.node \in Ids(pBuilt))

AppendedHere == SelectSeq(Appends, LAMBDA e : e.node = Live.id)

\* C25: where next has k children more than the live element, which was
\* built from previous, patch builds each of them and appends it at the
\* end, in next's order, without a patch call on it; the status counts one
\* added for each appendChild that patch makes, whatever the size of the
\* subtree appended, so k are counted at the patched element.
C25_ChildAppend ==
    (pStage = "patched" /\ SameTagElements /\ Missing > 0) =>
        /\ Len(Live.childNodes) = Len(pNext.children)
        /\ Len(AppendedHere) = Missing
        /\ pStatus.added = Len(Appends)
        /\ \A j \in 1..Missing :
              LET child == Live.childNodes[Len(pPrevious.children) + j]
              IN /\ AppendedHere[j].key = child.id
                 /\ child = buildTree(
                               Bare(pNext.children[Len(pPrevious.children)
                                                   + j]),
                               [nid |-> child.id, log |-> <<>>,
                                threw |-> FALSE]).tree
                 /\ \A c \in 1..Len(PatchCalls) :
                       PatchCalls[c].node \notin Ids(child)

\* Two children were appended, one of them with children of its own.
C25_Witness ==
    /\ pStage = "patched"
    /\ SameTagElements
    /\ Missing = 2
    /\ pStatus.added = 2
    /\ Len(Live.childNodes) = Len(pNext.children)
    /\ \E j \in 1..Len(Live.childNodes) :
          /\ j > Len(pPrevious.children)
          /\ Len(Live.childNodes[j].childNodes) >= 2

\* The larger of two numbers.
Max(a, b) == IF a > b THEN a ELSE b

\* The status the claim describes for a patch of a tree built from
\* previousView: a replaced subtree counts replaced 1, equal Text counts
\* nothing, two Elements of one tag count patched 1, the statuses of the
\* children matched by position, added 1 for each child next has beyond
\* previous and removed 1 for each child previous has beyond next.
RECURSIVE Report(_, _)
RECURSIVE SumReports(_, _, _)
Report(previousView, nextView) ==
    IF previousView.kind = "Text" /\ nextView.kind = "Text"
       /\ previousView.content = nextView.content
    THEN [replaced |-> 0, patched |-> 0, removed |-> 0, added |-> 0]
    ELSE IF previousView.kind = "Node" /\ nextView.kind = "Node"
            /\ previousView.tag = nextView.tag
    THEN LET sum == SumReports(previousView.children, nextView.children, 1)
             p == Len(previousView.children)
             n == Len(nextView.children)
         IN [replaced |-> sum.replaced,
             patched |-> sum.patched + 1,
             removed |-> sum.removed + Max(p - n, 0),
             added |-> sum.added + Max(n - p, 0)]
    ELSE [replaced |-> 1, patched |-> 0, removed |-> 0, added |-> 0]
SumReports(previous, next, i) ==
    IF i > Len(previous) \/ i > Len(next)
    THEN [replaced |-> 0, patched |-> 0, removed |-> 0, added |-> 0]
    ELSE LET head == Report(previous[i], next[i])
             rest == SumReports(previous, next, i + 1)
         IN [replaced |-> head.replaced + rest.replaced,
             patched |-> head.patched + rest.patched,
             removed |-> head.removed + rest.removed,
             added |-> head.added + rest.added]

\* C26: the status patch returns for two Elements of one tag is the sum,
\* counter by counter, of the statuses of the patches of its children, plus
\* patched 1 for the element, added 1 for each appended child and removed 1
\* for each trailing child removed; a replaced subtree counts replaced 1
\* whatever it holds, and no counter is negative.
C26_ReportAccounting ==
    (pStage \in {"patched", "patchedSame"} /\ SameTagElements) =>
        /\ pStatus = Report(Bare(pPrevious), Bare(pNext))
        /\ pStatus.replaced >= 0
        /\ pStatus.patched >= 1
        /\ pStatus.removed >= 0
        /\ pStatus.added >= 0
        /\ pStatus.replaced
             = Len(SelectSeq(pDom.log, LAMBDA e : e.op = "replaceWith"))

\* A patch that patched children in place, replaced grandchildren,
\* appended one and removed one.
C26_Witness ==
    /\ pStage = "patched"
    /\ SameTagElements
    /\ pStatus.patched >= 3
    /\ pStatus.replaced >= 1
    /\ pStatus.added >= 1
    /\ pStatus.removed >= 1

(***************************************************************************)
(* setAttribute                                                            *)
(***************************************************************************)
\* The call of setAttribute of the last step has returned.
WasSet == pStage \in {"set", "setAgain"}

\* C27: after setAttribute with the key class and the value v the classes
\* of the element are exactly the space-separated classes of v, whatever
\* classes it had before: each class of v is present and each class that is
\* not in v has been removed.
C27_ClassRule ==
    (WasSet /\ pAttribute.key = "class") =>
        /\ ~pDom.threw
        /\ Range(Live.classList) = Range(split(pAttribute.value)) \ {""}

\* The (tagName, key) pairs assigned as properties.
PropertyTable ==
    ({"INPUT"}
        \X {"checked", "indeterminate", "value", "readonly", "disabled"})
    \cup ({"OPTION"} \X {"selected", "disabled"})
    \cup ({"TEXTAREA"} \X {"value", "readonly", "disabled"})
    \cup ({"SELECT"} \X {"value", "disabled"})
    \cup ({"BUTTON", "OPTGROUP"} \X {"disabled"})

\* The tagName of an element with this tag.
Upper(tag) ==
    CASE tag = "div" -> "DIV"
      [] tag = "h1" -> "H1"
      [] tag = "button" -> "BUTTON"
      [] tag = "input" -> "INPUT"
      [] tag = "option" -> "OPTION"
      [] tag = "textarea" -> "TEXTAREA"
      [] tag = "select" -> "SELECT"
      [] tag = "optgroup" -> "OPTGROUP"

\* The call of the last step was with a key that is neither class nor a
\* property of the element.
GenericKey ==
    /\ WasSet
    /\ pAttribute.key # "class"
    /\ <<Upper(pBuilt.tag), pAttribute.key>> \notin PropertyTable

\* C28: for a key that is neither class nor a property of the element,
\* a Boolean attribute with the value true sets the attribute to the name
\* of its key; with the value false it removes the attribute if the
\* attribute's value is the name of the key, and otherwise leaves the
\* element as it was.
C28_BooleanRule ==
    (GenericKey /\ pAttribute.kind = "BooleanAttribute") =>
        /\ ~pDom.threw
        /\ IF pAttribute.value
           THEN Live = [pBuilt EXCEPT
                           !.attrs = {a \in @ : a.key # pAttribute.key}
                                     \cup {[key |-> pAttribute.key,
                                            value |-> pAttribute.key]}]
           ELSE IF [key |-> pAttribute.key, value |-> pAttribute.key]
                      \in pBuilt.attrs
           THEN Live = [pBuilt EXCEPT
                           !.attrs = {a \in @ : a.key # pAttribute.key}]
           ELSE Live = pBuilt

\* The attribute hidden, set by a call with true, was removed by a call
\* with false.
C28_Witness ==
    /\ pStage = "setAgain"
    /\ GenericKey
    /\ pAttribute.kind = "BooleanAttribute"
    /\ pAttribute.key = "hidden"
    /\ ~pAttribute.value
    /\ [key |-> "hidden", value |-> "hidden"] \in pBuilt.attrs
    /\ ~hasAttribute(Live, "hidden")
    /\ \E i \in 1..Len(pDom.log) : pDom.log[i].op = "removeAttribute"

\* The call of the last step assigned a property.
PropertySet ==
    \E i \in 1..Len(pDom.log) : pDom.log[i].op = "setProperty"

\* C29: setAttribute applies the class rule first, then the property
\* table, then the kind of the attribute.  isProperty accepts exactly the
\* pairs of the table; for such a pair the value is assigned as a property,
\* whatever the kind of the attribute, and the attribute of that key is not
\* written; for any other key that is not class no property is assigned;
\* the key class touches neither attributes nor properties.
C29_PropertyRule ==
    /\ \A tag \in ElementTags, key \in Keys \cup {"class"} :
          isProperty(Upper(tag), key)
              <=> <<Upper(tag), key>> \in PropertyTable
    /\ WasSet =>
          /\ tagName(pBuilt) = Upper(pBuilt.tag)
          /\ IF pAttribute.key = "class"
             THEN /\ Live.props = pBuilt.props
                  /\ Live.attrs = pBuilt.attrs
                  /\ ~PropertySet
             ELSE IF <<Upper(pBuilt.tag), pAttribute.key>> \in PropertyTable
             THEN /\ Live = [pBuilt EXCEPT
                                !.props = {p \in @ : p.key # pAttribute.key}
                                          \cup {[key |-> pAttribute.key,
                                                 kind |-> pAttribute.kind,
                                                 value |-> pAttribute.value]}]
                  /\ Len(pDom.log) = 1
                  /\ PropertySet
             ELSE /\ Live.props = pBuilt.props
                  /\ ~PropertySet

\* checked was assigned on an input from a Boolean attribute; the input
\* has no attribute checked.
C29_Witness ==
    /\ pStage = "set"
    /\ pBuilt.tag = "input"
    /\ pAttribute.kind = "BooleanAttribute"
    /\ pAttribute.key = "checked"
    /\ pAttribute.value
    /\ \E p \in Live.props : p.key = "checked" /\ p.value
    /\ ~hasAttribute(Live, "checked")

(***************************************************************************)
(* patchAttributes                                                         *)
(***************************************************************************)
\* The keys of the attributes of previous that next does not have.
DroppedKeys ==
    Range(attributeKeys(pPrevious.attributes))
        \ Range(attributeKeys(pNext.attributes))

\* C30: after patch of two Elements of one tag no key that previous has
\* and next has not is set on the live element, as an attribute, as a class
\* list or as a property, and the attributes, classes and properties of the
\* element are those of a fresh build of next.
C30_DroppedKeysRemoved ==
    (pStage = "patched" /\ SameTagElements) =>
        /\ \A key \in DroppedKeys :
              /\ ~hasAttribute(Live, key)
              /\ \A p \in Live.props : p.key # key
              /\ key = "class" => Live.classList = <<>>
        /\ Live.attrs = buildTree(Bare(pNext), NoDom).tree.attrs
        /\ Live.props = buildTree(Bare(pNext), NoDom).tree.props
        /\ Range(Live.classList)
             = Range(buildTree(Bare(pNext), NoDom).tree.classList)

(***************************************************************************)
(* The running program                                                     *)
(***************************************************************************)
\* The program was started under a mount point and returned its listener.
Running == running.send = "listener"

\* C31: in a running program the tree under the mount point has the
\* structure of buildTree(view(currentModel)) after every dispatch, also
\* when the kind or the tag of the root of the view changes, and the node
\* the dispatch loop holds as currentTree is the node under the mount
\* point.
C31_MountedTracksModel ==
    Running =>
        /\ Len(loop.root.childNodes) = 1
        /\ loop.currentTree.id = loop.root.childNodes[1].id
        /\ Shape(loop.root.childNodes[1])
             = Shape(buildTree(programView(program, loop.currentModel),
                               NoDom).tree)

\* The AST nodes that stand in html where the element `id` stands in tree.
RECURSIVE AstsAt(_, _, _)
AstsAt(html, tree, id) ==
    IF html.kind = "Text" \/ tree.kind # "Element" THEN {}
    ELSE (IF tree.id = id THEN {html} ELSE {})
         \cup UNION {AstsAt(html.children[i], tree.childNodes[i], id) :
                        i \in 1..Min(Len(html.children),
                                     Len(tree.childNodes))}

\* The descriptors for the event `name` of the AST node of the mounted
\* element `id` in the view of the current model.
Descriptors(st, id, name) ==
    LET at == AstsAt(programView(program, st.currentModel),
                     st.root.childNodes[1], id)
    IN IF at = {} THEN <<>>
       ELSE SelectSeq((CHOOSE html \in at : TRUE).events,
                      LAMBDA e : e.name = name)

\* The messages dispatched in the last step.
Dispatched ==
    LET cycles == SelectSeq(Log, LAMBDA e : e.op = "listener")
    IN [j \in 1..Len(cycles) |-> cycles[j].message]

\* A native event dispatches one message for each descriptor the AST node
\* of its target has for it, converted by that descriptor.
Responsive ==
    (Running /\ lastCall'.op = "event") =>
        Dispatched'
          = [j \in 1..Len(Descriptors(loop, lastCall'.target,
                                      lastCall'.name)) |->
                messageConverter(Descriptors(loop, lastCall'.target,
                                             lastCall'.name)[j],
                                 "Ada")]

\* C32: in a running program, after any number of completed cycles, every
\* mounted element carries one listener for each event descriptor of its
\* current AST node, and a native event named n on an element whose AST
\* node has k descriptors named n dispatches exactly k messages, one for
\* each descriptor and converted by it.
C32_Responsive == [](C15_NoStaleListener) /\ [][Responsive]_vars

\* The last step began a dispatch cycle for a message whose update
\* dispatched a second message before it returned.
Reentered ==
    /\ Len(Log) >= 2
    /\ Log[1].op = "listener"
    /\ Log[2].op = "listener"

\* The model after update for `first` and then for `second`.
InOrder(first, second, model) ==
    programUpdate(program, second,
                  programUpdate(program, first, model).model).model

\* C33: when update for a message m1 dispatches a message m2 through the
\* dispatch function it was given, the model the loop holds afterwards is
\* the result of update for m1 and m2 in one of the two orders, and the
\* stored previous view and the mounted tree are those of view(model).
C33_NoLostUpdate ==
    (Running /\ Reentered) =>
        /\ loop.currentModel
             \in {InOrder(Log[1].message, Log[2].message, Log[1].model),
                  InOrder(Log[2].message, Log[1].message, Log[1].model)}
        /\ Bare(loop.previousView)
             = programView(program, loop.currentModel)
        /\ Shape(loop.root.childNodes[1])
             = Shape(buildTree(programView(program, loop.currentModel),
                               NoDom).tree)

\* The live children and the children of the AST, level by level.
RECURSIVE Aligned(_, _)
Aligned(tree, html) ==
    tree.kind = "Element" =>
        /\ html.kind = "Node"
        /\ Len(tree.childNodes) = Len(html.children)
        /\ \A i \in 1..Len(tree.childNodes) :
               Aligned(tree.childNodes[i], html.children[i])

\* C34: in a program started by runProgram, between dispatch cycles every
\* live element reachable from the live tree the loop holds has exactly as
\* many children as the corresponding Element of the stored previous AST,
\* so patch never reads an undefined previous child.
C34_Aligned ==
    (started = "runProgram" /\ Running)
        => Aligned(loop.currentTree, loop.previousView)

\* The last step dispatched a message for which update returned the model
\* it was given.
SameModel ==
    /\ Running
    /\ Len(Log) > 0
    /\ Log[1].op = "listener"
    /\ programUpdate(program, Log[1].message, Log[1].model).model
         = Log[1].model

\* The patch reports of the last step.
Reports == SelectSeq(Log, LAMBDA e : e.op = "store")

\* What the cycle of a message that changes nothing may do: call update,
\* view and patch, and take off and register listeners.
Quiet ==
    /\ \A i \in 1..Len(Log) :
          Log[i].op \in {"listener", "update", "view", "patch",
                         "removeEventListener", "addEventListener",
                         "store", "return"}
    /\ Len(Reports) = 1
    /\ Reports[1].status
         = [replaced |-> 0,
            patched |-> NumElements(programView(program, Log[1].model)),
            removed |-> 0, added |-> 0]
    /\ loop.currentModel = Log[1].model
    /\ Len(loop.root.childNodes) = 1
    /\ Shape(loop.root.childNodes[1])
         = Shape(buildTree(programView(program, Log[1].model), NoDom).tree)

\* C35: in a running program, the dispatch of a message for which update
\* returns the same model gives a patch report with replaced, added and
\* removed 0 and patched the number of Elements of the view; no live node
\* is created, removed or replaced and no attribute is written; only
\* listeners are re-subscribed.
C35_SameModelSameTree == SameModel => Quiet

\* C36: in the name collector, after any sequence of messages from the
\* initial model, every name of checkedNames is a name of names.
C36_CheckedAreNames ==
    program = "names"
        => Range(loop.currentModel.checkedNames)
             \subseteq Range(loop.currentModel.names)

\* The name the message adds to a model.
Added(message, model) ==
    IF message.kind = "Click" THEN model.currentName ELSE message.name

\* The step applies update to a message that adds a name.
Adds ==
    /\ lastCall'.op = "update"
    /\ lastCall'.message.kind \in {"Click", "AddName"}

KeepsChecked ==
    /\ \A name \in Range(loop.currentModel.names) :
          name # Added(lastCall'.message, loop.currentModel)
             => (includes(loop'.currentModel.checkedNames, name)
                   <=> includes(loop.currentModel.checkedNames, name))
    /\ includes(loop'.currentModel.checkedNames,
                Added(lastCall'.message, loop.currentModel))

\* C37: in the name collector, Click and AddName change the checked status
\* of no name that was in names before: such a name is in checkedNames
\* after the message if and only if it was before, and the name added is
\* checked.
C37_AddKeepsChecked == [][Adds => KeepsChecked]_vars

\* The string holds the character.
Holds(s, c) == \E i \in 1..Len(s) : SubSeq(s, i, i) = c

Returned == lastCall.returned

C38_Expected ==
    IF pAttribute.kind = "BooleanAttribute"
    THEN Returned = (IF pAttribute.value
                     THEN pAttribute.key \o "=\"" \o pAttribute.key \o "\""
                     ELSE "")
    ELSE /\ Returned = (IF Holds(pAttribute.value, "\"")
                        THEN pAttribute.key \o "='" \o pAttribute.value \o "'"
                        ELSE pAttribute.key \o "=\"" \o pAttribute.value
                             \o "\"")
         /\ ~(Holds(pAttribute.value, "\"") /\ Holds(pAttribute.value, "'"))
               => ~Holds(pAttribute.value,
                         SubSeq(Returned, Len(Returned), Len(Returned)))

\* C38: renderAttributeAsString renders a Boolean attribute as key="key"
\* when true and as the empty string when false, and a String attribute as
\* key="value" unless the value holds a double quote anywhere, in which case
\* as key='value'; the delimiter chosen does not occur in a value that
\* holds one kind of quote only.
C38_RenderAttribute == pStage = "attributeRendered" => C38_Expected

====
